---- MODULE Spec2Model ----
(***************************************************************************)
(* Verification model of the schema-genius content-understanding pipeline. *)
(*                                                                         *)
(* Part 1: KnowledgeGraphBuilder (knowledge-graph-builder.ts).             *)
(*                                                                         *)
(* Strings are sequences of characters.  A verb of a relationship pattern  *)
(* ("like", "has") is written as one character of the alphabet; entity     *)
(* names use letters that occur in no modelled verb, so substring tests    *)
(* on the model's strings agree with the substring tests of the code.      *)
(* Confidences and edge weights are in tenths (0.7 is 7, 1.0 is 10).       *)
(***************************************************************************)
EXTENDS Integers, Sequences, FiniteSets, TLC

VARIABLES heap, cur, calls, query, embeddings, generated, exported, restored,
          compared, recommended, emitted, page, built, pruned, extracted, fetched,
          single, bulk, clustered, resolved, sentiment, queried

graphVars == <<heap, cur, calls>>
embeddingVars == <<embeddings, generated, exported, restored, compared>>
schemaVars == <<recommended, emitted, page, built, pruned>>
routeVars == <<extracted, fetched>>
uiVars == <<single, bulk>>
nlpVars == <<clustered, resolved, sentiment, queried>>
appVars == <<routeVars, uiVars, nlpVars>>
vars == <<graphVars, query, embeddingVars, schemaVars, appVars>>

(***************************************************************************)
(* Bounds and input pools                                                  *)
(***************************************************************************)
MaxEntities == 2

Whitespace == {" "}
Verbs == {"like", "has"}
Letters == {"x", "X", "y", "z", "w"}
WordChars == Letters \cup Verbs
SentenceEnd == {".", "!", "?"}

EntityX == [name |-> <<"X">>, type |-> "software", confidence |-> 9]
EntityXZero == [name |-> <<"x">>, type |-> "application", confidence |-> 0]
EntityY == [name |-> <<"y">>, type |-> "application", confidence |-> 5]
EntityEmpty == [name |-> <<>>, type |-> "team", confidence |-> 7]
EntityXY == [name |-> <<"x", " ", "y">>, type |-> "organization"]
EntityXYWide == [name |-> <<"X", " ", " ", "y">>, type |-> "team", confidence |-> 3]
EntityZ == [name |-> <<"z">>, type |-> "concept", confidence |-> 8]
EntityW == [name |-> <<"w">>, type |-> "concept", confidence |-> 6]

\* Entities the first caller may pass: equal ids under different spellings, a
\* zero confidence, a missing confidence, and the types the two type tables
\* relate.
EntityPool == {EntityX, EntityXZero, EntityY, EntityXY, EntityXYWide}

RECURSIVE Repeat(_, _, _)
Repeat(piece, sep, n) ==
  IF n = 0 THEN <<>>
  ELSE IF n = 1 THEN piece
  ELSE piece \o sep \o Repeat(piece, sep, n - 1)

\* "x like y x like y x like y x like y": one sentence, four pattern matches.
PassageLike == Repeat(<<"x", " ", "like", " ", "y">>, <<" ">>, 4)
\* "x y. x y. x y. x y. x y. x y. x y": seven sentences naming x and y.
PassageCoOccur == Repeat(<<"x", " ", "y">>, <<".", " ">>, 7)
\* "y has x"
PassageHas == <<"y", " ", "has", " ", "x">>
\* "x y. z w": two sentences, one pair of names in each.
PassagePairs == <<"x", " ", "y", ".", " ", "z", " ", "w">>
\* "x y z w": one sentence naming all four.
PassageAll == <<"x", " ", "y", " ", "z", " ", "w">>

PassagePool == {PassageLike, PassageCoOccur, PassageHas}

SeqsUpTo(S, n) == UNION {[1..k -> S] : k \in 0..n}

EntityLists == SeqsUpTo(EntityPool, MaxEntities)
Contents == {<<>>} \cup PassagePool
NoDomain == ""
Domains == {NoDomain, "technology"}

FourEntities == <<EntityX, EntityY, EntityZ, EntityW>>
InputPairs == [entities |-> FourEntities, content |-> PassagePairs, domain |-> NoDomain]
InputAll == [entities |-> FourEntities, content |-> PassageAll, domain |-> NoDomain]

\* The calls of the first caller: every entity list and content within the
\* bounds, and one call on four entities.
Inputs ==
  {[entities |-> es, content |-> c, domain |-> d] :
     es \in EntityLists, c \in Contents, d \in Domains}
  \cup {InputPairs}

\* The calls of the second caller: a small pool, so that two calls in flight
\* stay within reach of the check.
OtherInputs ==
  { [entities |-> <<EntityX, EntityY>>, content |-> PassageLike, domain |-> "technology"],
    [entities |-> <<EntityXY, EntityEmpty>>, content |-> PassageHas, domain |-> NoDomain],
    InputAll }

Callers == {1, 2}
InputsOf(c) == IF c = 1 THEN Inputs ELSE OtherInputs

(***************************************************************************)
(* String helpers                                                          *)
(***************************************************************************)
LowerChar(ch) == IF ch = "X" THEN "x" ELSE ch

toLowerCase(s) == IF s = <<>> THEN <<>> ELSE [i \in 1..Len(s) |-> LowerChar(s[i])]

\* s.includes(t)
Includes(s, t) ==
  \E i \in 0..(Len(s) - Len(t)) : \A j \in 1..Len(t) : s[i + j] = t[j]

\* The last index of the run of characters of S that starts at p (p itself
\* is in the run).
RECURSIVE RunEnd(_, _, _)
RunEnd(s, p, S) ==
  IF p + 1 <= Len(s) /\ s[p + 1] \in S THEN RunEnd(s, p + 1, S) ELSE p

RECURSIVE DropWhile(_, _)
DropWhile(s, S) ==
  IF s # <<>> /\ Head(s) \in S THEN DropWhile(Tail(s), S) ELSE s

\* s.replace(/\s+/g, '-')
RECURSIVE ReplaceWhitespaceRuns(_)
ReplaceWhitespaceRuns(s) ==
  IF s = <<>> THEN <<>>
  ELSE IF Head(s) \in Whitespace
       THEN <<"-">> \o ReplaceWhitespaceRuns(DropWhile(Tail(s), Whitespace))
       ELSE <<Head(s)>> \o ReplaceWhitespaceRuns(Tail(s))

\* s.trim()
RECURSIVE TrimRight(_)
TrimRight(s) ==
  IF s # <<>> /\ s[Len(s)] \in Whitespace THEN TrimRight(SubSeq(s, 1, Len(s) - 1)) ELSE s

Trim(s) == TrimRight(DropWhile(s, Whitespace))

\* content.split(/[.!?]+/)
RECURSIVE SplitSentences(_, _)
SplitSentences(s, acc) ==
  IF s = <<>> THEN <<acc>>
  ELSE IF Head(s) \in SentenceEnd
       THEN <<acc>> \o SplitSentences(DropWhile(s, SentenceEnd), <<>>)
       ELSE SplitSentences(Tail(s), Append(acc, Head(s)))

generateNodeId(name) == ReplaceWhitespaceRuns(toLowerCase(name))

(***************************************************************************)
(* The graph: three maps, each in insertion order                          *)
(***************************************************************************)
EmptyGraph == [nodes |-> <<>>, edges |-> <<>>, clusters |-> <<>>]

Ids(m) == {m[i].id : i \in 1..Len(m)}
Has(m, id) == \E i \in 1..Len(m) : m[i].id = id
IndexOf(m, id) == CHOOSE i \in 1..Len(m) : m[i].id = id
Get(m, id) == m[IndexOf(m, id)]

\* entity.confidence || 1.0
ConfidenceOrDefault(entity) ==
  IF "confidence" \in DOMAIN entity /\ entity.confidence # 0 THEN entity.confidence ELSE 10

\* entity.type || 'Thing'
TypeOrDefault(entity) ==
  IF "type" \in DOMAIN entity /\ entity.type # "" THEN entity.type ELSE "Thing"

Max(a, b) == IF a >= b THEN a ELSE b
Min(a, b) == IF a <= b THEN a ELSE b

\* The value of e, worked out once v has been: the statements of the code
\* run in order, each on the result of the one before.
AfterEvaluating(v, e) == IF v = v THEN e ELSE e

addNode(g, entity) ==
  LET nodeId == generateNodeId(entity.name)
      node == [id |-> nodeId, type |-> TypeOrDefault(entity), label |-> entity.name,
               confidence |-> ConfidenceOrDefault(entity), mentions |-> 1, importance |-> 0]
  IN IF Has(g.nodes, nodeId)
     THEN LET i == IndexOf(g.nodes, nodeId)
              existing == g.nodes[i]
          IN [g EXCEPT !.nodes[i] =
                [existing EXCEPT !.mentions = existing.mentions + 1,
                                 !.confidence = Max(existing.confidence, ConfidenceOrDefault(entity))]]
     ELSE [g EXCEPT !.nodes = Append(g.nodes, node)]

RECURSIVE addNodes(_, _)
addNodes(g, entities) ==
  IF entities = <<>> THEN g ELSE addNodes(addNode(g, Head(entities)), Tail(entities))

(***************************************************************************)
(* extractRelationships                                                    *)
(***************************************************************************)
\* The patterns of relationshipPatterns whose verb can occur in a content
\* over the model's alphabet, in the order of the table; every other
\* pattern needs a verb that no modelled content contains.
relationshipPatterns ==
  << [relType |-> "hasProperty", verb |-> "has"],
     [relType |-> "relatedTo", verb |-> "like"] >>

\* One attempt of /\b(\w+)\s+VERB\s+(\w+)/ at position p.
MatchAt(s, p, verb) ==
  LET n == Len(s)
      e1 == RunEnd(s, p, WordChars)
      w1 == RunEnd(s, e1 + 1, Whitespace)
      v == w1 + 1
      w2 == RunEnd(s, v + 1, Whitespace)
      b == w2 + 1
      e2 == RunEnd(s, b, WordChars)
      ok == /\ p >= 1 /\ p <= n
            /\ s[p] \in WordChars
            /\ (p = 1 \/ s[p - 1] \notin WordChars)
            /\ e1 + 1 <= n /\ s[e1 + 1] \in Whitespace
            /\ v <= n /\ s[v] = verb
            /\ v + 1 <= n /\ s[v + 1] \in Whitespace
            /\ b <= n /\ s[b] \in WordChars
  IN IF ok
     THEN [ok |-> TRUE, g1 |-> SubSeq(s, p, e1), g2 |-> SubSeq(s, b, e2), end |-> e2]
     ELSE [ok |-> FALSE, g1 |-> <<>>, g2 |-> <<>>, end |-> 0]

\* while ((match = pattern.exec(content)) !== null): the matches of a
\* global pattern from lastIndex on, leftmost first, each search resuming
\* where the last match ended.
RECURSIVE ExecAll(_, _, _)
ExecAll(s, from, verb) ==
  LET starts == {p \in from..Len(s) : MatchAt(s, p, verb).ok}
  IN IF starts = {} THEN <<>>
     ELSE LET p == CHOOSE q \in starts : \A r \in starts : q <= r
              m == MatchAt(s, p, verb)
          IN <<m>> \o ExecAll(s, m.end + 1, verb)

NotFound == [found |-> FALSE, name |-> <<>>]

RECURSIVE FirstName(_, _, _, _)
\* The first name of the list that P selects, or null.
FirstName(names, i, normalized, exact) ==
  IF i > Len(names) THEN NotFound
  ELSE LET lower == toLowerCase(names[i])
           hit == IF exact THEN lower = normalized
                  ELSE Includes(lower, normalized) \/ Includes(normalized, lower)
       IN IF hit THEN [found |-> TRUE, name |-> names[i]]
          ELSE FirstName(names, i + 1, normalized, exact)

findMatchingEntity(text, entityNames) ==
  LET normalized == Trim(toLowerCase(text))
      exact == FirstName(entityNames, 1, normalized, TRUE)
  IN IF exact.found THEN exact ELSE FirstName(entityNames, 1, normalized, FALSE)

\* if (entity1 && ...): null and the empty string are both falsy.
Truthy(r) == r.found /\ r.name # <<>>

RECURSIVE MatchesToRelationships(_, _, _)
MatchesToRelationships(ms, relType, entityNames) ==
  IF ms = <<>> THEN <<>>
  ELSE LET entity1 == findMatchingEntity(Head(ms).g1, entityNames)
           entity2 == findMatchingEntity(Head(ms).g2, entityNames)
           rest == MatchesToRelationships(Tail(ms), relType, entityNames)
       IN IF Truthy(entity1) /\ Truthy(entity2) /\ entity1.name # entity2.name
          THEN <<[entity1 |-> entity1.name, entity2 |-> entity2.name,
                  relationship |-> relType, confidence |-> 7]>> \o rest
          ELSE rest

RECURSIVE PatternRelationships(_, _, _)
PatternRelationships(patterns, content, entityNames) ==
  IF patterns = <<>> THEN <<>>
  ELSE MatchesToRelationships(ExecAll(content, 1, Head(patterns).verb),
                              Head(patterns).relType, entityNames)
       \o PatternRelationships(Tail(patterns), content, entityNames)

SelectFound(sentenceLower, entityNames) ==
  LET F[i \in 0..Len(entityNames)] ==
        IF i = 0 THEN <<>>
        ELSE IF Includes(sentenceLower, toLowerCase(entityNames[i]))
             THEN Append(F[i - 1], entityNames[i])
             ELSE F[i - 1]
  IN F[Len(entityNames)]

\* One pair (foundEntities[i], foundEntities[j]) of one sentence.
CoOccurPair(coOccurrences, a, b) ==
  LET hits == {k \in 1..Len(coOccurrences) :
                 \/ coOccurrences[k].entity1 = a /\ coOccurrences[k].entity2 = b
                 \/ coOccurrences[k].entity1 = b /\ coOccurrences[k].entity2 = a}
  IN IF hits # {}
     THEN LET k == CHOOSE h \in hits : \A h2 \in hits : h <= h2
          IN [coOccurrences EXCEPT ![k].strength = Min(coOccurrences[k].strength + 1, 10)]
     ELSE Append(coOccurrences, [entity1 |-> a, entity2 |-> b, strength |-> 5])

RECURSIVE CoOccurInner(_, _, _, _)
CoOccurInner(coOccurrences, found, i, j) ==
  IF i > Len(found) THEN coOccurrences
  ELSE IF j > Len(found) THEN CoOccurInner(coOccurrences, found, i + 1, i + 2)
  ELSE LET recorded == CoOccurPair(coOccurrences, found[i], found[j])
       IN AfterEvaluating(recorded, CoOccurInner(recorded, found, i, j + 1))

RECURSIVE CoOccurSentences(_, _, _)
CoOccurSentences(coOccurrences, sentences, entityNames) ==
  IF sentences = <<>> THEN coOccurrences
  ELSE LET recorded == CoOccurInner(coOccurrences,
                         SelectFound(toLowerCase(Head(sentences)), entityNames), 1, 2)
       IN AfterEvaluating(recorded,
                          CoOccurSentences(recorded, Tail(sentences), entityNames))

findCoOccurrences(content, entityNames) ==
  SelectSeq(CoOccurSentences(<<>>, SplitSentences(content, <<>>), entityNames),
            LAMBDA co : co.strength > 4)

RECURSIVE CoOccurToRelationships(_)
CoOccurToRelationships(cos) ==
  IF cos = <<>> THEN <<>>
  ELSE <<[entity1 |-> Head(cos).entity1, entity2 |-> Head(cos).entity2,
          relationship |-> "relatedTo", confidence |-> Head(cos).strength]>>
       \o CoOccurToRelationships(Tail(cos))

typeHierarchy ==
  [organization |-> {"department", "team", "group"},
   product |-> {"feature", "component", "variant"},
   concept |-> {"subconcept", "aspect", "element"},
   location |-> {"sublocation", "area", "region"}]

RECURSIVE InferInner(_, _, _, _)
InferInner(relationships, entities, p, c) ==
  IF p > Len(entities) THEN relationships
  ELSE IF c > Len(entities) \/ "type" \notin DOMAIN entities[p]
          \/ entities[p].type \notin DOMAIN typeHierarchy
       THEN InferInner(relationships, entities, p + 1, 1)
  ELSE LET parent == entities[p]
           child == entities[c]
           exists == \E k \in 1..Len(relationships) :
                       /\ relationships[k].entity1 = parent.name
                       /\ relationships[k].entity2 = child.name
           add == /\ "type" \in DOMAIN child
                  /\ child.type \in typeHierarchy[parent.type]
                  /\ parent.name # child.name
                  /\ ~exists
       IN InferInner(
            IF add
            THEN Append(relationships,
                        [entity1 |-> parent.name, entity2 |-> child.name,
                         relationship |-> "contains", confidence |-> 6])
            ELSE relationships,
            entities, p, c + 1)

inferHierarchicalRelationships(entities, relationships) ==
  InferInner(relationships, entities, 1, 1)

EntityNames(entities) ==
  IF entities = <<>> THEN <<>> ELSE [i \in 1..Len(entities) |-> entities[i].name]

extractRelationships(content, entities) ==
  LET entityNames == EntityNames(entities)
      byPattern == PatternRelationships(relationshipPatterns, content, entityNames)
      byCoOccurrence == CoOccurToRelationships(findCoOccurrences(content, entityNames))
  IN inferHierarchicalRelationships(entities, byPattern \o byCoOccurrence)


(***************************************************************************)
(* addEdge, applyDomainKnowledge                                           *)
(***************************************************************************)
\* `${sourceId}-${relationship}-${targetId}`
EdgeId(sourceId, relationship, targetId) ==
  sourceId \o <<"-", relationship, "-">> \o targetId

\* addEdge without its check that both nodes exist.
addEdgeUnchecked(g, relationship) ==
  LET sourceId == generateNodeId(relationship.entity1)
      targetId == generateNodeId(relationship.entity2)
      edgeId == EdgeId(sourceId, relationship.relationship, targetId)
      edge == [id |-> edgeId, source |-> sourceId, target |-> targetId,
               relationship |-> relationship.relationship,
               weight |-> relationship.confidence]
  IN IF Has(g.edges, edgeId)
     THEN LET i == IndexOf(g.edges, edgeId)
          IN [g EXCEPT !.edges[i].weight = Min(g.edges[i].weight + 1, 10)]
     ELSE [g EXCEPT !.edges = Append(g.edges, edge)]

\* addEdge without the cap on a weight it raises.
addEdgeUncapped(g, relationship) ==
  LET sourceId == generateNodeId(relationship.entity1)
      targetId == generateNodeId(relationship.entity2)
      edgeId == EdgeId(sourceId, relationship.relationship, targetId)
      edge == [id |-> edgeId, source |-> sourceId, target |-> targetId,
               relationship |-> relationship.relationship,
               weight |-> relationship.confidence]
  IN IF ~Has(g.nodes, sourceId) \/ ~Has(g.nodes, targetId) THEN g
     ELSE IF Has(g.edges, edgeId)
          THEN LET i == IndexOf(g.edges, edgeId)
               IN [g EXCEPT !.edges[i].weight = g.edges[i].weight + 1]
          ELSE [g EXCEPT !.edges = Append(g.edges, edge)]

addEdge(g, relationship) ==
  LET sourceId == generateNodeId(relationship.entity1)
      targetId == generateNodeId(relationship.entity2)
      edgeId == EdgeId(sourceId, relationship.relationship, targetId)
      edge == [id |-> edgeId, source |-> sourceId, target |-> targetId,
               relationship |-> relationship.relationship,
               weight |-> relationship.confidence]
  IN IF ~Has(g.nodes, sourceId) \/ ~Has(g.nodes, targetId) THEN g
     ELSE IF Has(g.edges, edgeId)
          THEN LET i == IndexOf(g.edges, edgeId)
               IN [g EXCEPT !.edges[i].weight = Min(g.edges[i].weight + 1, 10)]
          ELSE [g EXCEPT !.edges = Append(g.edges, edge)]

RECURSIVE addEdges(_, _)
addEdges(g, relationships) ==
  IF relationships = <<>> THEN g
  ELSE LET added == addEdge(g, Head(relationships))
       IN AfterEvaluating(added, addEdges(added, Tail(relationships)))

\* The hierarchy of each ontology, its entries in the order of the table.
domainOntologies ==
  [technology |-> << [parentType |-> "software",
                      childTypes |-> {"application", "API", "database"}],
                     [parentType |-> "hardware",
                      childTypes |-> {"server", "device", "component"}] >>,
   business |-> << [parentType |-> "company",
                    childTypes |-> {"department", "team", "employee"}],
                   [parentType |-> "market",
                    childTypes |-> {"segment", "demographic", "region"}] >>,
   medical |-> << [parentType |-> "disease",
                   childTypes |-> {"symptom", "complication"}],
                  [parentType |-> "treatment",
                   childTypes |-> {"medication", "therapy", "procedure"}] >>,
   education |-> << [parentType |-> "curriculum",
                     childTypes |-> {"course", "module", "lesson"}],
                    [parentType |-> "skill",
                     childTypes |-> {"competency", "ability", "expertise"}] >>]

addHierarchicalEdge(g, parentNode, childNode) ==
  LET edgeId == EdgeId(parentNode.id, "hierarchical", childNode.id)
  IN IF Has(g.edges, edgeId) THEN g
     ELSE [g EXCEPT !.edges =
             Append(g.edges, [id |-> edgeId, source |-> parentNode.id,
                              target |-> childNode.id,
                              relationship |-> "hierarchical", weight |-> 8])]

RECURSIVE ApplyHierarchy(_, _, _, _)
\* The three nested loops: entry h of the hierarchy, parent node p, child node c.
ApplyHierarchy(g, hierarchy, p, c) ==
  IF hierarchy = <<>> THEN g
  ELSE IF p > Len(g.nodes) THEN ApplyHierarchy(g, Tail(hierarchy), 1, 1)
  ELSE IF c > Len(g.nodes) \/ g.nodes[p].type # Head(hierarchy).parentType
       THEN ApplyHierarchy(g, hierarchy, p + 1, 1)
  ELSE ApplyHierarchy(
         IF g.nodes[c].type \in Head(hierarchy).childTypes
         THEN addHierarchicalEdge(g, g.nodes[p], g.nodes[c])
         ELSE g,
         hierarchy, p, c + 1)

applyDomainKnowledge(g, domain) ==
  IF domain \notin DOMAIN domainOntologies THEN g
  ELSE ApplyHierarchy(g, domainOntologies[domain], 1, 1)

(***************************************************************************)
(* clusterNodes, dfs                                                       *)
(***************************************************************************)
RECURSIVE dfs(_, _, _), dfsEdges(_, _, _, _, _)
dfs(g, nodeId, visited) ==
  dfsEdges(g, nodeId, 1, <<nodeId>>, visited \cup {nodeId})

\* The loop of dfs over the edges, from edge i on; visited is shared with
\* the recursive calls.
dfsEdges(g, nodeId, i, cluster, visited) ==
  IF i > Len(g.edges) THEN [cluster |-> cluster, visited |-> visited]
  ELSE LET edge == g.edges[i]
       IN IF edge.source = nodeId /\ edge.target \notin visited
          THEN LET r == dfs(g, edge.target, visited)
               IN AfterEvaluating(r,
                    dfsEdges(g, nodeId, i + 1, cluster \o r.cluster, r.visited))
          ELSE IF edge.target = nodeId /\ edge.source \notin visited
          THEN LET r == dfs(g, edge.source, visited)
               IN AfterEvaluating(r,
                    dfsEdges(g, nodeId, i + 1, cluster \o r.cluster, r.visited))
          ELSE dfsEdges(g, nodeId, i + 1, cluster, visited)

\* this.graph.clusters.set(`cluster-${clusterId}`, cluster): key k of the map
\* is entry k + 1 of the sequence.
SetCluster(clusters, clusterId, cluster) ==
  IF clusterId + 1 <= Len(clusters)
  THEN [clusters EXCEPT ![clusterId + 1] = cluster]
  ELSE Append(clusters, cluster)

RECURSIVE ClusterLoop(_, _, _, _)
ClusterLoop(g, n, visited, clusterId) ==
  IF n > Len(g.nodes) THEN g
  ELSE IF g.nodes[n].id \in visited THEN ClusterLoop(g, n + 1, visited, clusterId)
  ELSE LET r == dfs(g, g.nodes[n].id, visited)
       IN IF Len(r.cluster) > 1
          THEN ClusterLoop([g EXCEPT !.clusters = SetCluster(g.clusters, clusterId, r.cluster)],
                           n + 1, r.visited, clusterId + 1)
          ELSE ClusterLoop(g, n + 1, r.visited, clusterId)

clusterNodes(g) == ClusterLoop(g, 1, {}, 0)

(***************************************************************************)
(* calculateNodeImportance: scores are fixed-point numbers, 1.0 is         *)
(* ImportanceScale                                                         *)
(***************************************************************************)
ImportanceScale == 10 ^ 5
dampingPercent == 85
iterations == 50

getOutDegree(g, nodeId) ==
  Max(Cardinality({i \in 1..Len(g.edges) : g.edges[i].source = nodeId}), 1)
\* importanceScore += damping * sourceNode.importance * edge.weight / outDegree
\* over the edges into nodeId, in edge order.
RECURSIVE IncomingScore(_, _, _, _)
IncomingScore(g, nodeId, i, score) ==
  IF i > Len(g.edges) THEN score
  ELSE LET edge == g.edges[i]
       IN IF edge.target = nodeId /\ Has(g.nodes, edge.source)
          THEN IncomingScore(g, nodeId, i + 1,
                 score + (dampingPercent * Get(g.nodes, edge.source).importance * edge.weight)
                           \div (100 * getOutDegree(g, edge.source) * 10))
          ELSE IncomingScore(g, nodeId, i + 1, score)

\* One iteration: every new score is computed from the old importances, then
\* all are stored.
ImportanceRound(g) ==
  LET nodeCount == Len(g.nodes)
      newScores == [n \in 1..nodeCount |->
                      IncomingScore(g, g.nodes[n].id, 1,
                        ((100 - dampingPercent) * ImportanceScale) \div (100 * nodeCount))]
  IN [g EXCEPT !.nodes = [n \in 1..nodeCount |->
                            [g.nodes[n] EXCEPT !.importance = newScores[n]]]]

\* for (let i = 0; i < iterations; i++): a round that changes no score leaves
\* the rounds after it nothing to change.
RECURSIVE ImportanceRounds(_, _)
ImportanceRounds(g, i) ==
  IF i >= iterations THEN g
  ELSE LET next == ImportanceRound(g)
       IN IF next = g THEN g ELSE ImportanceRounds(next, i + 1)

calculateNodeImportance(g) ==
  LET nodeCount == Len(g.nodes)
  IN IF nodeCount = 0 THEN g
     ELSE ImportanceRounds(
            [g EXCEPT !.nodes = [n \in 1..nodeCount |->
               [g.nodes[n] EXCEPT !.importance = ImportanceScale \div nodeCount]]], 0)

(***************************************************************************)
(* buildGraph: two atomic segments around its one await                    *)
(***************************************************************************)
\* buildGraph without its clearing of this.graph.
KeptGraph(old) == old

\* this.graph = { nodes: new Map(), edges: new Map(), clusters: new Map() }
ClearedGraph(old) == EmptyGraph

\* From the cleared graph to the await.
BuildBeforeAwait(old, entities) == addNodes(ClearedGraph(old), entities)

\* From the await to the return, on whatever this.graph then is.
BuildAfterAwait(g, relationships, domain) ==
  LET withEdges == addEdges(g, relationships)
      withDomain == IF domain # NoDomain /\ domain \in DOMAIN domainOntologies
                    THEN applyDomainKnowledge(withEdges, domain)
                    ELSE withEdges
  IN calculateNodeImportance(clusterNodes(withDomain))

Idle == [pc |-> "idle"]

\* No getShortestPath call has been made.
NoQuery == [asked |-> FALSE]

\* new KnowledgeGraphBuilder()
GraphInit ==
  /\ heap = <<EmptyGraph>>
  /\ cur = 1
  /\ calls = [c \in Callers |-> Idle]
  /\ query = NoQuery

InFlight == {c \in Callers : calls[c].pc = "awaiting"}

\* buildGraph(entities, content, domain) up to its await.
BuildGraphStart(c, inp) ==
  /\ calls[c].pc = "idle"
  /\ heap' = Append(heap, BuildBeforeAwait(heap[cur], inp.entities))
  /\ cur' = Len(heap) + 1
  /\ calls' = [d \in Callers |->
       IF d = c
       THEN [pc |-> "awaiting", args |-> inp,
             relationships |-> extractRelationships(inp.content, inp.entities),
             overlapped |-> InFlight # {}]
       ELSE IF d \in InFlight THEN [calls[d] EXCEPT !.overlapped = TRUE]
       ELSE calls[d]]
  /\ UNCHANGED <<query, embeddingVars, schemaVars, appVars>>

BuildGraphCall(c) == \E inp \in InputsOf(c) : BuildGraphStart(c, inp)

\* buildGraph from its await to its return; the result is a reference to the
\* graph object.
BuildGraphReturn(c) ==
  /\ calls[c].pc = "awaiting"
  /\ heap' = [heap EXCEPT ![cur] =
                BuildAfterAwait(heap[cur], calls[c].relationships, calls[c].args.domain)]
  /\ calls' = [calls EXCEPT ![c] =
                 [pc |-> "done", args |-> calls[c].args,
                  relationships |-> calls[c].relationships,
                  overlapped |-> calls[c].overlapped,
                  startedOn |-> heap[cur], result |-> cur,
                  returned |-> heap'[cur]]]
  /\ UNCHANGED <<cur, query, embeddingVars, schemaVars, appVars>>

Next ==
  \/ \E c \in Callers : BuildGraphCall(c)
  \/ \E c \in Callers : BuildGraphReturn(c)

(***************************************************************************)
(* getShortestPath                                                         *)
(***************************************************************************)
\* Costs are in units of 1/2520, which every weight in tenths divides:
\* 1 / edge.weight is CostUnit \div weight costs of 10 units each.
CostUnit == 2 * 2 * 2 * 3 * 3 * 5 * 7
Infinity == CostUnit * 1000

\* 1 / edge.weight
EdgeCost(weight) == IF weight = 0 THEN Infinity ELSE CostUnit \div weight

\* null, which is no node id: an id is a sequence of characters.
Null == <<"null">>

\* if (neighbor && ...), previous.get(current) || null: null and the empty
\* string are both falsy.
Falsy(id) == id = Null \/ id = <<>>

\* The first node of unvisited, in insertion order, whose distance is below
\* minDistance and below every distance before it; 0 when there is none.
RECURSIVE FindCurrent(_, _, _, _, _)
FindCurrent(distances, unvisited, n, current, minDistance) ==
  IF n > Len(distances) THEN current
  ELSE IF n \in unvisited /\ distances[n] < minDistance
       THEN FindCurrent(distances, unvisited, n + 1, n, distances[n])
       ELSE FindCurrent(distances, unvisited, n + 1, current, minDistance)

\* for (const edge of this.graph.edges.values()): the distances and
\* predecessors after the edges from i on have been looked at.
RECURSIVE UpdateNeighbors(_, _, _, _, _)
UpdateNeighbors(g, current, unvisited, i, dp) ==
  IF i > Len(g.edges) THEN dp
  ELSE LET edge == g.edges[i]
           currentId == g.nodes[current].id
           neighbor == IF edge.source = currentId THEN edge.target
                       ELSE IF edge.target = currentId THEN edge.source
                       ELSE Null
           n == IF Has(g.nodes, neighbor) THEN IndexOf(g.nodes, neighbor) ELSE 0
           alt == dp.distances[current] + EdgeCost(edge.weight)
       IN IF ~Falsy(neighbor) /\ n \in unvisited /\ alt < dp.distances[n]
          THEN UpdateNeighbors(g, current, unvisited, i + 1,
                 [distances |-> [dp.distances EXCEPT ![n] = alt],
                  previous |-> [dp.previous EXCEPT ![n] = currentId]])
          ELSE UpdateNeighbors(g, current, unvisited, i + 1, dp)

\* while (unvisited.size > 0)
RECURSIVE Dijkstra(_, _, _, _)
Dijkstra(g, targetId, unvisited, dp) ==
  IF unvisited = {} THEN dp
  ELSE LET current == FindCurrent(dp.distances, unvisited, 1, 0, Infinity)
       IN IF current = 0 \/ g.nodes[current].id = targetId THEN dp
          ELSE Dijkstra(g, targetId, unvisited \ {current},
                        UpdateNeighbors(g, current, unvisited \ {current}, 1, dp))

\* while (current !== null) { path.unshift(current); ... }
RECURSIVE ReconstructPath(_, _, _, _)
ReconstructPath(g, previous, current, path) ==
  IF current = Null THEN path
  ELSE LET before == previous[IndexOf(g.nodes, current)]
       IN ReconstructPath(g, previous, IF Falsy(before) THEN Null ELSE before,
                          <<current>> \o path)

\* The ids of the nodes of the path returned, or Null.
getShortestPath(g, source, target) ==
  LET sourceId == generateNodeId(source)
      targetId == generateNodeId(target)
      nodeCount == Len(g.nodes)
  IN IF ~Has(g.nodes, sourceId) \/ ~Has(g.nodes, targetId) THEN Null
     ELSE LET initial ==
                [distances |-> [n \in 1..nodeCount |->
                                  IF g.nodes[n].id = sourceId THEN 0 ELSE Infinity],
                 previous |-> [n \in 1..nodeCount |-> Null]]
              final == Dijkstra(g, targetId, 1..nodeCount, initial)
              path == ReconstructPath(g, final.previous, targetId, <<>>)
          IN IF path[1] # sourceId THEN Null
             ELSE SelectSeq(path, LAMBDA id : Has(g.nodes, id))

\* "x y. y z" and then "x w. w z" six times over: two routes from x to z,
\* the one through w the cheaper.
PassageDetour ==
  <<"x", " ", "y", ".", " ", "y", " ", "z", ".", " ">>
  \o Repeat(<<"x", " ", "w", ".", " ", "w", " ", "z">>, <<".", " ">>, 6)

InputDetour == [entities |-> FourEntities, content |-> PassageDetour, domain |-> NoDomain]

\* The graphs that are queried: two components, a complete graph, two routes
\* of unlike cost, and graphs with a node whose name is empty.
QueryInputs ==
  { InputPairs, InputAll, InputDetour,
    [entities |-> <<EntityXY, EntityEmpty>>, content |-> PassageHas, domain |-> NoDomain],
    [entities |-> <<EntityY, EntityEmpty, EntityX>>, content |-> PassageLike,
     domain |-> "technology"] }

QueryNames == {<<"X">>, <<"y">>, <<"z">>, <<"w">>, <<>>, <<"x", " ", "y">>}

QueryBuildGraphCall == \E inp \in QueryInputs : BuildGraphStart(1, inp)

\* getShortestPath(source, target) on the graph that this.graph is then.
GetShortestPath(source, target) ==
  /\ query' = [asked |-> TRUE, source |-> source, target |-> target,
               graph |-> heap[cur],
               result |-> getShortestPath(heap[cur], source, target)]
  /\ UNCHANGED <<graphVars, embeddingVars, schemaVars, appVars>>

NextQuery ==
  \/ QueryBuildGraphCall
  \/ BuildGraphReturn(1)
  \/ \E source, target \in QueryNames : GetShortestPath(source, target)

(***************************************************************************)
(* Claims about buildGraph                                                 *)
(***************************************************************************)
Done == {c \in Callers : calls[c].pc = "done"}

\* What a builder fresh from its constructor returns for the same arguments.
FreshBuild(inp) ==
  BuildAfterAwait(BuildBeforeAwait(EmptyGraph, inp.entities),
                  extractRelationships(inp.content, inp.entities), inp.domain)

EndpointsPresent(g, relationship) ==
  /\ generateNodeId(relationship.entity1) \in Ids(g.nodes)
  /\ generateNodeId(relationship.entity2) \in Ids(g.nodes)

\* C1: in every graph object, at every moment, each edge's source and target
\* are ids of nodes of that graph; and in a returned graph, a relationship
\* whose source or target node is absent has left no edge.
C1_EdgesJoinNodes ==
  /\ \A o \in 1..Len(heap) : \A i \in 1..Len(heap[o].edges) :
       /\ heap[o].edges[i].source \in Ids(heap[o].nodes)
       /\ heap[o].edges[i].target \in Ids(heap[o].nodes)
  /\ \A c \in Done : \A k \in 1..Len(calls[c].relationships) :
       LET rel == calls[c].relationships[k]
       IN ~EndpointsPresent(calls[c].returned, rel) =>
            ~Has(calls[c].returned.edges,
                 EdgeId(generateNodeId(rel.entity1), rel.relationship,
                        generateNodeId(rel.entity2)))

\* A call has returned a graph with edges although one of its relationships
\* named a node the graph does not hold.
C1_Witness ==
  \E c \in Done :
    /\ Len(calls[c].returned.edges) > 0
    /\ \E k \in 1..Len(calls[c].relationships) :
         ~EndpointsPresent(calls[c].returned, calls[c].relationships[k])

\* C2 (as claimed): every call, overlapped or not, returns the graph that its
\* own entities, content and domain determine.
C2_OverlapIsolation ==
  \A c \in Done : calls[c].returned = FreshBuild(calls[c].args)

\* C3: a call that ran with no other call in flight returns the graph a fresh
\* builder returns for the same arguments, whatever was built before it.
C3_RebuildsFromScratch ==
  \A c \in Done :
    ~calls[c].overlapped =>
      /\ calls[c].returned = FreshBuild(calls[c].args)
      /\ heap[calls[c].result] = calls[c].returned

\* A call ran alone after an earlier call had left nodes, edges and clusters
\* behind, and was given other arguments.
C3_Witness ==
  \E c, d \in Done :
    /\ c # d
    /\ ~calls[c].overlapped
    /\ calls[d].result < calls[c].result
    /\ calls[d].args # calls[c].args
    /\ Len(calls[d].returned.nodes) > 1
    /\ Len(calls[d].returned.edges) > 0
    /\ Len(calls[d].returned.clusters) > 0

RECURSIVE CollapseWhitespace(_)
CollapseWhitespace(s) ==
  IF s = <<>> THEN <<>>
  ELSE IF Head(s) \in Whitespace
       THEN <<" ">> \o CollapseWhitespace(DropWhile(Tail(s), Whitespace))
       ELSE <<Head(s)>> \o CollapseWhitespace(Tail(s))

\* The normalized name of the claim: lowercased, whitespace collapsed.
NormalizedName(name) == CollapseWhitespace(toLowerCase(name))

SetMax(S) == CHOOSE m \in S : \A n \in S : n <= m

\* C4 (as claimed): the entities of one normalized name, each with a
\* confidence in [0,1], have exactly one node; its confidence is the largest
\* of theirs and its mention count is their number.
C4_DedupKeepsMaxConfidence ==
  \A c \in Done :
    ~calls[c].overlapped =>
      LET es == calls[c].args.entities
          g == calls[c].returned
      IN \A i \in 1..Len(es) :
           LET group == {j \in 1..Len(es) :
                           NormalizedName(es[j].name) = NormalizedName(es[i].name)}
               nodesFor == {n \in 1..Len(g.nodes) :
                              NormalizedName(g.nodes[n].label) = NormalizedName(es[i].name)}
           IN (\A j \in group : "confidence" \in DOMAIN es[j]) =>
                /\ Cardinality(nodesFor) = 1
                /\ \A n \in nodesFor :
                     /\ g.nodes[n].confidence = SetMax({es[j].confidence : j \in group})
                     /\ g.nodes[n].mentions = Cardinality(group)

RECURSIVE Reach(_, _)
\* The node ids an undirected path joins to a member of S.
Reach(g, S) ==
  LET next == S \cup {g.edges[i].target : i \in {j \in 1..Len(g.edges) : g.edges[j].source \in S}}
                \cup {g.edges[i].source : i \in {j \in 1..Len(g.edges) : g.edges[j].target \in S}}
  IN IF next = S THEN S ELSE Reach(g, next)

Range(f) == {f[i] : i \in DOMAIN f}

\* C5 (as claimed): the clusters of a returned graph are exactly its connected
\* components of two or more nodes, each once, with no node listed twice.
C5_ClustersAreComponents ==
  \A c \in Done :
    LET g == calls[c].returned
        components == {Reach(g, {id}) : id \in Ids(g.nodes)}
        large == {K \in components : Cardinality(K) >= 2}
    IN /\ {Range(g.clusters[k]) : k \in 1..Len(g.clusters)} = large
       /\ Len(g.clusters) = Cardinality(large)
       /\ \A k \in 1..Len(g.clusters) :
            Cardinality(Range(g.clusters[k])) = Len(g.clusters[k])

\* The same for the calls that ran alone.
ClustersAreComponentsAlone ==
  \A c \in Done :
    ~calls[c].overlapped =>
      LET g == calls[c].returned
          components == {Reach(g, {id}) : id \in Ids(g.nodes)}
          large == {K \in components : Cardinality(K) >= 2}
      IN /\ {Range(g.clusters[k]) : k \in 1..Len(g.clusters)} = large
         /\ Len(g.clusters) = Cardinality(large)

RECURSIVE SumImportance(_)
SumImportance(nodes) ==
  IF nodes = <<>> THEN 0 ELSE Head(nodes).importance + SumImportance(Tail(nodes))

ImportanceTolerance == ImportanceScale \div 100

\* C7 (as claimed): the importance scores of a returned graph with at least
\* one node sum to 1.0 within tolerance.
C7_ImportanceSumsToOne ==
  \A c \in Done :
    (~calls[c].overlapped /\ Len(calls[c].returned.nodes) > 0) =>
      LET total == SumImportance(calls[c].returned.nodes)
      IN /\ total >= ImportanceScale - ImportanceTolerance
         /\ total <= ImportanceScale + ImportanceTolerance

SameTriple(edge, relationship) ==
  /\ edge.source = generateNodeId(relationship.entity1)
  /\ edge.target = generateNodeId(relationship.entity2)
  /\ edge.relationship = relationship.relationship

JoinCost(g, a, b) ==
  LET costs == {EdgeCost(g.edges[i].weight) :
                  i \in {j \in 1..Len(g.edges) :
                           \/ g.edges[j].source = a /\ g.edges[j].target = b
                           \/ g.edges[j].source = b /\ g.edges[j].target = a}}
  IN IF costs = {} THEN Infinity ELSE CHOOSE c \in costs : \A d \in costs : c <= d

\* The least cost of a walk of at most k edges from s to each node.
RECURSIVE LeastCosts(_, _, _)
LeastCosts(g, s, k) ==
  IF k = 0 THEN [id \in Ids(g.nodes) |-> IF id = s THEN 0 ELSE Infinity]
  ELSE LET before == LeastCosts(g, s, k - 1)
       IN [id \in Ids(g.nodes) |->
             LET through == {before[a] + JoinCost(g, a, id) : a \in Ids(g.nodes)}
                 best == CHOOSE c \in through : \A d \in through : c <= d
             IN Min(before[id], Min(best, Infinity))]

RECURSIVE PathCost(_, _)
PathCost(g, path) ==
  IF Len(path) < 2 THEN 0
  ELSE Min(JoinCost(g, path[1], path[2]) + PathCost(g, Tail(path)), Infinity)

\* What the claim requires of the answer to one query on graph g.
ShortestPathContract(g, source, target, result) ==
  LET s == generateNodeId(source)
      t == generateNodeId(target)
      absent == s \notin Ids(g.nodes) \/ t \notin Ids(g.nodes)
      joined == ~absent /\ t \in Reach(g, {s})
  IN /\ (result = Null) <=> ~joined
     /\ result # Null =>
          /\ result[1] = s
          /\ result[Len(result)] = t
          /\ \A i \in 1..(Len(result) - 1) :
               JoinCost(g, result[i], result[i + 1]) < Infinity
          /\ PathCost(g, result) = LeastCosts(g, s, Len(g.nodes))[t]

\* C6 (as claimed): every answer of getShortestPath is null exactly when an
\* endpoint is no node of the graph or no undirected path joins the two, and
\* is otherwise a path from source to target along edges, of least cost.
C6_ShortestPathContract ==
  query.asked =>
    ShortestPathContract(query.graph, query.source, query.target, query.result)

\* The same for the graphs in which no node has the empty id.
ShortestPathContractNamedNodes ==
  (query.asked /\ <<>> \notin Ids(query.graph.nodes)) =>
    ShortestPathContract(query.graph, query.source, query.target, query.result)

\* A query was answered with a path of more than one edge although a path of
\* fewer edges joins the same two nodes.
ShortestPathDetourTaken ==
  /\ query.asked
  /\ query.result # Null
  /\ Len(query.result) = 3
  /\ \E mid \in Ids(query.graph.nodes) :
       /\ mid # query.result[2]
       /\ JoinCost(query.graph, query.result[1], mid) < Infinity
       /\ JoinCost(query.graph, mid, query.result[3]) < Infinity
       /\ JoinCost(query.graph, query.result[1], mid)
            + JoinCost(query.graph, mid, query.result[3])
          > PathCost(query.graph, query.result)

(***************************************************************************)
(* Part 2: VectorEmbeddingsEngine (vector-embeddings-engine.ts).           *)
(*                                                                         *)
(* A text is a sequence of words of a small lexicon, joined by single      *)
(* spaces; the empty sequence is the empty string.  Numbers are in         *)
(* thousandths (1.0 is Unit), and NaN is a value of its own that every     *)
(* operation hands on.  A vector of 768 numbers is written without its     *)
(* runs of padding zeros: components 0..47 (TF-IDF), 300..321 (semantic),  *)
(* 500..510 (n-grams) and 700..703 (context), 85 in all; the code sets no  *)
(* other component, whatever the text.                                     *)
(***************************************************************************)
Unit == 10 ^ 3
NaN == 0 - 2 ^ 30

IsNaN(a) == a = NaN

Add(a, b) == IF IsNaN(a) \/ IsNaN(b) THEN NaN ELSE a + b

\* a * b of two numbers in thousandths.
Times(a, b) == IF IsNaN(a) \/ IsNaN(b) THEN NaN ELSE (a * b) \div Unit

\* count / total of two whole numbers with count <= total: 0 / 0 is NaN.
Ratio(count, total) == IF total = 0 THEN NaN ELSE (count * Unit) \div total

\* Math.sqrt of a whole number, rounded down.
RECURSIVE SqrtBetween(_, _, _)
SqrtBetween(n, low, high) ==
  IF low >= high THEN low
  ELSE LET mid == (low + high + 1) \div 2
       IN IF mid * mid <= n THEN SqrtBetween(n, mid, high)
          ELSE SqrtBetween(n, low, mid - 1)

Sqrt(n) == IF IsNaN(n) THEN NaN ELSE SqrtBetween(n, 0, 2 ^ 15)

\* word.toLowerCase()
LowerWord(word) == IF word = "Product" THEN "product" ELSE word

\* word.length
WordLength(word) == CASE word \in {"Product", "product"} -> 7
                      [] word = "review" -> 6
                      [] word = "best" -> 4
                      [] word = "price" -> 5
                      [] word = "the" -> 3

\* (word.match(/[A-Z]/g) || []).length
WordCapitals(word) == IF word = "Product" THEN 1 ELSE 0

\* The keywords of the feature lists that a lowercased word of the lexicon
\* holds as a substring: each of "product", "review", "best" and "price"
\* holds itself and no other, "the" holds none.
KeywordsIn(word) ==
  IF word \in {"product", "review", "best", "price"} THEN {word} ELSE {}

\* textLower.includes(keyword): no keyword holds a space, so a keyword in a
\* text is within one of its words.
TextIncludes(textLower, keyword) ==
  \E i \in 1..Len(textLower) : keyword \in KeywordsIn(textLower[i])

TextLower(text) == [i \in 1..Len(text) |-> LowerWord(text[i])]

RECURSIVE SumOf(_, _, _)
\* f[low] + ... + f[high], halving the range.
SumOf(f, low, high) ==
  IF low > high THEN 0
  ELSE IF low = high THEN f[low]
  ELSE LET mid == (low + high) \div 2
       IN Add(SumOf(f, low, mid), SumOf(f, mid + 1, high))

\* text.length
TextLength(text) ==
  IF text = <<>> THEN 0
  ELSE SumOf([i \in 1..Len(text) |-> WordLength(text[i])], 1, Len(text)) + Len(text) - 1

TextCapitals(text) == SumOf([i \in 1..Len(text) |-> WordCapitals(text[i])], 1, Len(text))

stopwords ==
  {"the", "is", "at", "which", "on", "and", "a", "an", "as", "are",
   "was", "were", "been", "be", "have", "has", "had", "do", "does",
   "did", "will", "would", "could", "should", "may", "might", "must",
   "shall", "can", "need", "ought", "to", "of", "in", "for", "with",
   "by", "from", "about", "into", "through", "during", "before", "after",
   "above", "below", "up", "down", "out", "off", "over", "under", "again",
   "further", "then", "once", "here", "there", "when", "where", "why",
   "how", "all", "both", "each", "few", "more", "most", "other", "some",
   "such", "no", "nor", "not", "only", "own", "same", "so", "than",
   "too", "very", "it", "its", "itself", "they", "them", "their",
   "theirs", "themselves", "what", "who", "whom", "this",
   "that", "these", "those", "i", "me", "my", "myself", "we", "our",
   "ours", "ourselves", "you", "your", "yours", "yourself", "yourselves",
   "he", "him", "his", "himself", "she", "her", "hers", "herself"}

\* commonTerms, term k of the sequence at index k - 1 of the vocabulary.
vocabulary ==
  <<"article", "blogposting", "product", "review", "recipe", "howto",
    "event", "organization", "person", "place", "service", "offer",
    "name", "description", "author", "publisher", "date", "image",
    "price", "rating", "location", "address", "phone", "email",
    "technology", "business", "health", "education", "fitness",
    "food", "travel", "entertainment", "sports", "fashion",
    "buy", "sell", "learn", "teach", "create", "make", "build",
    "develop", "design", "improve", "optimize", "analyze">>

tokenize(text) == SelectSeq(TextLower(text), LAMBDA token : token \notin stopwords)

\* Math.log(100), the idf of every term: this.model.idf is never filled.
DefaultIdf == 4605

Count(token, tokens) == Cardinality({i \in 1..Len(tokens) : tokens[i] = token})

calculateTfIdf(tokens) ==
  [index \in 1..Len(vocabulary) |->
     Times(Ratio(Count(vocabulary[index], tokens), Len(tokens)), DefaultIdf)]

schemaTypes ==
  <<"article", "blog", "product", "review", "recipe", "howto",
    "event", "job", "course", "faq", "video", "local">>

industries ==
  << <<"software", "app", "digital", "tech">>,
     <<"health", "medical", "doctor", "patient">>,
     <<"money", "invest", "finance", "bank">>,
     <<"learn", "course", "student", "teach">>,
     <<"buy", "shop", "product", "price">> >>

\* keywords.reduce((sum, keyword) => sum + (includes ? 1 : 0), 0) / keywords.length
KeywordScore(textLower, keywords) ==
  Ratio(Cardinality({k \in 1..Len(keywords) : TextIncludes(textLower, keywords[k])}),
        Len(keywords))

\* The 22 features set before the padding.  No text over the lexicon holds a
\* question mark, a digit or a line break.
extractSemanticFeatures(text) ==
  LET textLower == TextLower(text)
  IN [k \in 1..Len(schemaTypes) |->
        IF TextIncludes(textLower, schemaTypes[k]) THEN Unit ELSE 0]
     \o << (TextLength(text) * Unit) \div 1000,
           (0 * Unit) \div 10,
           (0 * Unit) \div 10,
           Ratio(TextCapitals(text), TextLength(text)),
           (0 * Unit) \div 10 >>
     \o [k \in 1..Len(industries) |-> KeywordScore(textLower, industries[k])]

importantBigrams ==
  << <<"how", "to">>, <<"step", "by">>, <<"by", "step">>, <<"product", "review">>,
     <<"best", "practices">>, <<"getting", "started">>, <<"complete", "guide">>,
     <<"ultimate", "guide">>, <<"for", "beginners">> >>

\* The 11 features set before the padding.
extractNgramFeatures(tokens) ==
  LET bigrams == [i \in 1..(Len(tokens) - 1) |-> <<tokens[i], tokens[i + 1]>>]
      trigrams == [i \in 1..(Len(tokens) - 2) |->
                     <<tokens[i], tokens[i + 1], tokens[i + 2]>>]
  IN [k \in 1..Len(importantBigrams) |-> Count(importantBigrams[k], bigrams) * Unit]
     \o << Ratio(Cardinality({bigrams[i] : i \in 1..Len(bigrams)}), Len(tokens)),
           Ratio(Cardinality({trigrams[i] : i \in 1..Len(trigrams)}), Len(tokens)) >>

positiveWords == <<"good", "great", "excellent", "best", "amazing", "love">>
negativeWords == <<"bad", "poor", "worst", "terrible", "hate", "awful">>
actionWords == <<"create", "make", "build", "develop", "design", "implement">>
temporalWords == <<"today", "tomorrow", "yesterday", "now", "soon", "recent">>

\* The 4 features set before the padding.
extractContextualFeatures(text) ==
  LET textLower == TextLower(text)
  IN << KeywordScore(textLower, positiveWords), KeywordScore(textLower, negativeWords),
        KeywordScore(textLower, actionWords), KeywordScore(textLower, temporalWords) >>

\* vector.reduce((sum, val) => sum + val * val, 0), in millionths.
SumOfSquares(vector) ==
  SumOf([i \in 1..Len(vector) |->
           IF IsNaN(vector[i]) THEN NaN ELSE vector[i] * vector[i]], 1, Len(vector))

normalizeVector(vector) ==
  LET magnitude == Sqrt(SumOfSquares(vector))
  IN IF magnitude = 0 THEN vector
     ELSE [i \in 1..Len(vector) |->
             IF IsNaN(vector[i]) \/ IsNaN(magnitude) THEN NaN
             ELSE (vector[i] * Unit) \div magnitude]

generateVector(tokens, originalText) ==
  normalizeVector(calculateTfIdf(tokens) \o extractSemanticFeatures(originalText)
                  \o extractNgramFeatures(tokens)
                  \o extractContextualFeatures(originalText))

cosineSimilarity(vec1, vec2) ==
  IF Len(vec1) # Len(vec2) THEN 0
  ELSE LET dotProduct == SumOf([i \in 1..Len(vec1) |->
                                  IF IsNaN(vec1[i]) \/ IsNaN(vec2[i]) THEN NaN
                                  ELSE vec1[i] * vec2[i]], 1, Len(vec1))
           denominator == IF IsNaN(dotProduct) THEN NaN
                          ELSE Sqrt(SumOfSquares(vec1)) * Sqrt(SumOfSquares(vec2))
       IN IF denominator = 0 THEN 0
          ELSE IF IsNaN(denominator) THEN NaN
          ELSE (dotProduct * Unit) \div denominator

(***************************************************************************)
(* The store: this.embeddings, a Map, as the sequence of its entries in    *)
(* insertion order                                                         *)
(***************************************************************************)
MaxGenerated == 1

\* map.set(id, embedding): a key the map holds keeps its place.
MapSet(map, id, embedding) ==
  IF \E i \in 1..Len(map) : map[i].id = id
  THEN [i \in 1..Len(map) |-> IF map[i].id = id THEN embedding ELSE map[i]]
  ELSE Append(map, embedding)

\* map.delete(id)
MapDelete(map, id) == SelectSeq(map, LAMBDA e : e.id # id)

\* `embed-${Date.now()}-${Math.random()...}`: an id no earlier call was given.
generateId(n) == <<"embed", n>>

\* The id argument left out, or the empty string: both are falsy.
NoId == <<>>

\* The texts given to the engine: the empty string, a stopword alone, and
\* two texts that share a token.
Texts == {<<>>, <<"the">>, <<"Product", "review">>, <<"best", "review">>}

\* A text compared with others and never stored for good: it shares no token
\* with "Product review".
ComparedTexts == {<<"best", "price">>}

\* this.generateVector(this.tokenize(text), text) of each text, worked out
\* once.
TextVectors ==
  LET vectors == [text \in Texts \cup ComparedTexts |->
                    generateVector(tokenize(text), text)]
  IN AfterEvaluating(vectors, vectors)

VectorOf(text) == TextVectors[text]

\* The embedding createEmbedding(text, id) builds and stores, n ids having
\* been generated before.
NewEmbedding(text, id, n) ==
  [id |-> IF id = NoId THEN generateId(n + 1) ELSE id,
   vector |-> VectorOf(text),
   metadata |-> [text |-> text, type |-> "text"]]

\* The vector that is 1 at the component of the term "product" and 0
\* elsewhere; and the vectors asked about: one of another length, that one,
\* and the vectors of two texts.
ProductAxis ==
  [i \in 1..Len(VectorOf(<<>>)) |->
     IF i <= Len(vocabulary) /\ vocabulary[Min(i, Len(vocabulary))] = "product"
     THEN Unit ELSE 0]
QueryVectors == {<<Unit>>, ProductAxis, VectorOf(<<>>), VectorOf(<<"Product", "review">>)}
Ks == {0, 1, 2, 5}
Thresholds == {0 - Unit, 0, Unit \div 2}

\* this.cosineSimilarity(queryVector, embedding.vector) of the vectors above,
\* worked out once.
KnownSimilarities ==
  LET known == [pair \in (QueryVectors \cup {VectorOf(text) : text \in Texts})
                            \X {VectorOf(text) : text \in Texts \cup ComparedTexts} |->
                  cosineSimilarity(pair[1], pair[2])]
  IN AfterEvaluating(known, known)

\* this.cosineSimilarity(queryVector, embedding.vector)
Similarity(vec1, vec2) ==
  IF <<vec1, vec2>> \in DOMAIN KnownSimilarities
  THEN KnownSimilarities[<<vec1, vec2>>]
  ELSE cosineSimilarity(vec1, vec2)

\* slice(0, k)
SliceTo(seq, k) ==
  LET end == IF k < 0 THEN Max(Len(seq) + k, 0) ELSE Min(k, Len(seq))
  IN SubSeq(seq, 1, end)

\* results.sort((a, b) => b.similarity - a.similarity): a stable sort, the
\* greater similarity first.
RECURSIVE SortBySimilarity(_)
SortBySimilarity(seq) ==
  IF seq = <<>> THEN <<>>
  ELSE LET sorted == SortBySimilarity(SubSeq(seq, 1, Len(seq) - 1))
           last == seq[Len(seq)]
           ahead == Cardinality({i \in 1..Len(sorted) :
                                   sorted[i].similarity >= last.similarity})
       IN SubSeq(sorted, 1, ahead) \o <<last>> \o SubSeq(sorted, ahead + 1, Len(sorted))

\* similarity > threshold, which is false of NaN.
Above(similarity, threshold) == ~IsNaN(similarity) /\ similarity > threshold

\* findSimilar from "const results = []" on: the search of a store for a
\* vector.
SearchStore(map, vector, k, threshold) ==
  LET scored == [i \in 1..Len(map) |->
                   [id |-> map[i].id,
                    similarity |-> Similarity(vector, map[i].vector),
                    metadata |-> map[i].metadata]]
      kept == SelectSeq(scored, LAMBDA r : Above(r.similarity, threshold))
  IN SliceTo(SortBySimilarity(kept), k)

\* importEmbeddings with the items set last to first.
RECURSIVE importEmbeddingsBackwards(_, _)
importEmbeddingsBackwards(map, data) ==
  IF data = <<>> THEN <<>>
  ELSE MapSet(importEmbeddingsBackwards(map, Tail(data)), Head(data).id,
              [id |-> Head(data).id, vector |-> Head(data).vector,
               metadata |-> Head(data).metadata])

exportEmbeddings(map) ==
  [i \in 1..Len(map) |->
     [id |-> map[i].id, vector |-> map[i].vector, metadata |-> map[i].metadata]]

RECURSIVE SetAll(_, _)
SetAll(map, data) ==
  IF data = <<>> THEN map
  ELSE SetAll(MapSet(map, Head(data).id,
                     [id |-> Head(data).id, vector |-> Head(data).vector,
                      metadata |-> Head(data).metadata]),
              Tail(data))

\* this.embeddings.clear(), then a set for every item.
importEmbeddings(map, data) == SetAll(<<>>, data)

(***************************************************************************)
(* The engine's operations.  A second engine, fresh from its constructor,  *)
(* takes the import.                                                       *)
(***************************************************************************)
EmbeddingIds == {<<"a">>, NoId}

\* The queries findSimilar is called with.
Queries ==
  {[kind |-> "string", text |-> <<"Product", "review">>],
   [kind |-> "vector", vector |-> VectorOf(<<"best", "review">>)]}

\* The k and threshold it is called with: the defaults, and the best match
\* however poor.
Limits == {[k |-> 5, threshold |-> Unit \div 2], [k |-> 1, threshold |-> 0]}

\* The pairs of texts computeTextSimilarity is called with: two empty texts,
\* a stopword and a text, two texts without a common token, and two texts
\* with one.
TextPairs ==
  { << <<>>, <<>> >>,
    << <<"the">>, <<"Product", "review">> >>,
    << <<"Product", "review">>, <<"best", "price">> >>,
    << <<"Product", "review">>, <<"best", "review">> >> }

NoSimilarity == [asked |-> FALSE]
NoExport == [taken |-> FALSE]
Fresh == [imported |-> FALSE, embeddings |-> <<>>]

\* new VectorEmbeddingsEngine(), twice
EmbeddingsInit ==
  /\ embeddings = <<>>
  /\ generated = 0
  /\ exported = NoExport
  /\ restored = Fresh
  /\ compared = NoSimilarity

\* createEmbedding(text, id)
CreateEmbedding(text, id) ==
  /\ id = NoId => generated < MaxGenerated
  /\ embeddings' = MapSet(embeddings,
                          NewEmbedding(text, id, generated).id,
                          NewEmbedding(text, id, generated))
  /\ generated' = IF id = NoId THEN generated + 1 ELSE generated
  /\ UNCHANGED <<exported, restored, compared, graphVars, query, schemaVars, appVars>>

\* findSimilar(queryVector, k, threshold) on a store, n ids having been
\* generated before: the store it leaves and the results it returns.  A
\* query that is a string is embedded, and stored, first.
findSimilar(map, queryVector, k, threshold, n) ==
  LET embedding == NewEmbedding(queryVector.text, NoId, n)
      searched == IF queryVector.kind = "string"
                  THEN MapSet(map, embedding.id, embedding)
                  ELSE map
      vector == IF queryVector.kind = "string" THEN embedding.vector
                ELSE queryVector.vector
  IN [embeddings |-> searched,
      results |-> SearchStore(searched, vector, k, threshold)]

\* A call of findSimilar; what it returns is not kept.
FindSimilar(queryVector, k, threshold) ==
  /\ queryVector.kind = "string" => generated < MaxGenerated
  /\ embeddings' = findSimilar(embeddings, queryVector, k, threshold, generated).embeddings
  /\ generated' = IF queryVector.kind = "string" THEN generated + 1 ELSE generated
  /\ UNCHANGED <<exported, restored, compared, graphVars, query, schemaVars, appVars>>

\* computeTextSimilarity(text1, text2) on a store: the store it leaves and
\* the number it returns.
computeTextSimilarity(map, text1, text2) ==
  LET embedding1 == NewEmbedding(text1, <<"temp1">>, 0)
      embedding2 == NewEmbedding(text2, <<"temp2">>, 0)
      stored == MapSet(MapSet(map, embedding1.id, embedding1),
                       embedding2.id, embedding2)
  IN [embeddings |-> MapDelete(MapDelete(stored, <<"temp1">>), <<"temp2">>),
      result |-> Similarity(embedding1.vector, embedding2.vector)]

\* A call of computeTextSimilarity.
ComputeTextSimilarity(text1, text2) ==
  /\ LET returned == computeTextSimilarity(embeddings, text1, text2)
     IN /\ embeddings' = returned.embeddings
        /\ compared' = [asked |-> TRUE, text1 |-> text1, text2 |-> text2,
                        result |-> returned.result]
  /\ UNCHANGED <<generated, exported, restored, graphVars, query, schemaVars, appVars>>

\* removeEmbedding(id)
RemoveEmbedding(id) ==
  /\ embeddings' = MapDelete(embeddings, id)
  /\ UNCHANGED <<generated, exported, restored, compared, graphVars, query, schemaVars, appVars>>

\* clearEmbeddings()
ClearEmbeddings ==
  /\ embeddings' = <<>>
  /\ UNCHANGED <<generated, exported, restored, compared, graphVars, query, schemaVars, appVars>>

\* exportEmbeddings(), called once; from is the store it was called on.
ExportEmbeddings ==
  /\ ~exported.taken
  /\ exported' = [taken |-> TRUE, data |-> exportEmbeddings(embeddings),
                  from |-> embeddings]
  /\ UNCHANGED <<embeddings, generated, restored, compared, graphVars, query, schemaVars, appVars>>

\* importEmbeddings(data) on the second engine, data being what was exported.
ImportEmbeddings ==
  /\ exported.taken
  /\ restored' = [imported |-> TRUE,
                  embeddings |-> importEmbeddings(restored.embeddings, exported.data)]
  /\ UNCHANGED <<embeddings, generated, exported, compared, graphVars, query, schemaVars, appVars>>

NextEmbeddings ==
  \/ \E text \in Texts, id \in EmbeddingIds : CreateEmbedding(text, id)
  \/ \E q \in Queries, limit \in Limits : FindSimilar(q, limit.k, limit.threshold)
  \/ \E id \in {<<"a">>, generateId(1)} : RemoveEmbedding(id)
  \/ ClearEmbeddings
  \/ \E pair \in TextPairs : ComputeTextSimilarity(pair[1], pair[2])
  \/ ExportEmbeddings
  \/ ImportEmbeddings

(***************************************************************************)
(* Part 3: the schema recommender (ml-recommendation-engine.ts).  Content, *)
(* title and URL are sequences of lowercase words, and a pattern is the    *)
(* set of single words its alternatives match; an alternative that needs a *)
(* digit, punctuation or a second word matches no text here.  Scores are   *)
(* in tenths.                                                              *)
(***************************************************************************)
MaxWords == 4

\* this.schemaTypePatterns, in the order of the Map.
schemaTypePatterns ==
  << [type |-> "Recipe", patterns |->
        << {"ingredient", "ingredients", "recipe", "cooking", "baking", "preparation"},
           {},
           {"preheat", "mix", "stir", "bake", "cook", "simmer", "boil"},
           {"serve", "serves", "serving", "servings", "yield", "preptime", "cooktime"} >>],
     [type |-> "HowTo", patterns |->
        << {"tutorial", "guide", "instruction", "instructions"},
           {},
           {"requirement", "requirements"} >>],
     [type |-> "Product", patterns |->
        << {"price", "cost", "buy", "purchase", "shop", "cart", "checkout"},
           {"feature", "features", "specification", "specifications",
            "dimension", "dimensions", "weight", "size"},
           {"availability", "shipping"},
           {"warranty", "guarantee"} >>],
     [type |-> "Review", patterns |->
        << {"review", "rating", "star", "stars", "verdict"},
           {"recommend", "worth", "value"},
           {"comparison", "versus", "vs"},
           {} >>],
     [type |-> "Event", patterns |->
        << {"event", "conference", "meeting", "workshop", "seminar", "webinar"},
           {"date", "time", "location", "venue", "address", "ticket", "tickets"},
           {"register", "registration", "rsvp", "attend", "join"},
           {"schedule", "agenda", "speaker", "speakers", "presenter"} >>],
     [type |-> "FAQ", patterns |->
        << {"faq"},
           {"question", "answer", "ask", "respond", "reply"},
           {},
           {} >>],
     [type |-> "JobPosting", patterns |->
        << {"job", "position", "career", "employment", "hiring", "vacancy"},
           {"salary", "compensation", "benefit", "benefits", "pay", "wage"},
           {"requirement", "requirements", "qualification", "qualifications",
            "experience", "skill", "skills"},
           {"apply", "application", "resume", "cv"} >>],
     [type |-> "Course", patterns |->
        << {"course", "class", "lesson", "curriculum", "syllabus", "module"},
           {"learn", "teach", "instructor", "student", "education"},
           {"duration", "week", "weeks", "hour", "hours", "credit", "credits",
            "certificate"},
           {"enroll", "enrollment", "register", "tuition"} >>],
     [type |-> "LocalBusiness", patterns |->
        << {"hour", "hours", "open", "closed", "monday", "tuesday", "wednesday",
            "thursday", "friday", "saturday", "sunday"},
           {"address", "location", "direction", "directions", "map", "near"},
           {"contact", "phone", "email", "website"},
           {"service", "services", "menu", "offering", "offerings"} >>],
     [type |-> "VideoObject", patterns |->
        << {"video", "watch", "play", "duration", "minute", "minutes", "second",
            "seconds"},
           {"youtube", "vimeo", "embed", "player", "streaming"},
           {"transcript", "caption", "captions", "subtitle", "subtitles"},
           {"view", "views", "like", "likes", "comment", "comments", "share"} >>] >>

\* (content.match(pattern) || []).length
MatchCount(content, pattern) ==
  Cardinality({i \in 1..Len(content) : content[i] \in pattern})

\* pattern.test(text)
Test(text, pattern) == \E i \in 1..Len(text) : text[i] \in pattern

\* The words of the content: the length of each with the space after it is
\* far below the lengths the scorers ask about.
ContentWords == {"price", "features", "review", "product", "<img>"}
ContentWordLength ==
  [word \in ContentWords |->
     CASE word = "price" -> 5 [] word = "features" -> 8 [] word = "review" -> 6
       [] word = "product" -> 7 [] word = "<img>" -> 5]

RECURSIVE ContentLength(_)
\* content.length, the words joined by single spaces
ContentLength(content) ==
  IF content = <<>> THEN 0
  ELSE IF Len(content) = 1 THEN ContentWordLength[content[1]]
  ELSE ContentWordLength[Head(content)] + 1 + ContentLength(Tail(content))

\* extractFeatures: the features a scorer reads.  No text here holds a
\* question mark or a list tag.
extractFeatures(content, title) ==
  LET text == title \o content
  IN [hasSteps |-> Test(text, {"first", "second", "third", "then", "next", "finally"}),
      hasRatings |-> Test(text, {"rating", "review"}),
      hasPrice |-> Test(text, {"price", "cost", "fee", "payment"}),
      hasIngredients |-> Test(text, {"ingredient", "ingredients", "cup", "cups",
                                     "tablespoon", "tablespoons", "teaspoon", "teaspoons"}),
      hasInstructions |-> Test(text, {"instruction", "instructions", "direction",
                                      "directions", "method", "step", "steps"}),
      hasDate |-> Test(text, {"january", "february", "march", "april", "may", "june",
                              "july", "august", "september", "october", "november",
                              "december"}),
      hasLocation |-> Test(text, {"address", "location", "venue", "city", "state",
                                  "country", "zip"}),
      hasEvent |-> Test(text, {"event", "conference", "meeting", "seminar", "workshop"}),
      hasProduct |-> Test(text, {"product", "item", "model", "brand", "manufacturer"}),
      hasFAQ |-> Test(text, {"faq"}),
      hasHowTo |-> Test(text, {"guide", "tutorial", "learn"}),
      hasReview |-> Test(text, {"review", "verdict", "rating"}),
      hasJob |-> Test(text, {"job", "position", "career", "hiring", "employment"}),
      hasCourse |-> Test(text, {"course", "class", "lesson", "learn", "teach"}),
      hasVideo |-> Test(text, {"video", "watch", "play", "youtube", "vimeo"}),
      contentLength |-> ContentLength(content),
      imageCount |-> MatchCount(content, {"<img>"}),
      questionCount |-> 0,
      listCount |-> 0]

\* if (condition) score += amount
If(condition, amount) == IF condition THEN amount ELSE 0

\* this.schemaTypeFeatures: LocalBusiness has no scorer.
schemaTypeFeatures(schemaType, features) ==
  CASE schemaType = "Recipe" ->
         If(features.hasIngredients, 3) + If(features.hasInstructions, 3)
           + If(features.hasSteps, 2) + If(features.imageCount > 0, 1)
           + If(features.listCount > 1, 1)
    [] schemaType = "HowTo" ->
         If(features.hasHowTo, 3) + If(features.hasSteps, 3)
           + If(features.hasInstructions, 2) + If(features.listCount > 0, 1)
           + If(features.imageCount > 1, 1)
    [] schemaType = "Product" ->
         If(features.hasProduct, 3) + If(features.hasPrice, 3)
           + If(features.hasRatings, 2) + If(features.imageCount > 0, 2)
    [] schemaType = "Review" ->
         If(features.hasReview, 3) + If(features.hasRatings, 3)
           + If(features.hasProduct, 2) + If(features.contentLength > 500, 2)
    [] schemaType = "FAQ" ->
         If(features.hasFAQ, 4) + If(features.questionCount > 3, 3)
           + If(features.listCount > 0, 2) + If(features.contentLength > 300, 1)
    [] schemaType = "Event" ->
         If(features.hasEvent, 3) + If(features.hasDate, 3)
           + If(features.hasLocation, 2) + If(features.hasPrice, 2)
    [] schemaType = "JobPosting" ->
         If(features.hasJob, 4) + If(features.hasLocation, 2)
           + If(features.listCount > 1, 2) + If(features.contentLength > 400, 2)
    [] schemaType = "Course" ->
         If(features.hasCourse, 4) + If(features.hasPrice, 2)
           + If(features.listCount > 0, 2) + If(features.contentLength > 500, 2)
    [] schemaType = "VideoObject" ->
         If(features.hasVideo, 5) + If(features.imageCount > 0, 3)
           + If(features.contentLength < 500, 2)
    [] OTHER -> 0

\* The pattern pass of recommendSchema for one type:
\* patternScore += Math.min(matches.length * 0.1, 0.3) for each pattern.
patternScore(content, patterns) ==
  SumOf([k \in 1..Len(patterns) |-> Min(MatchCount(content, patterns[k]), 3)],
        1, Len(patterns))

\* scores.get(schemaType) of a Map kept as a sequence of [type, score].
ScoreOf(scores, schemaType) ==
  LET at == {i \in 1..Len(scores) : scores[i].type = schemaType}
  IN IF at = {} THEN 0 ELSE scores[CHOOSE i \in at : TRUE].score

\* adjustScore: a type the Map lacks is added at its end.
adjustScore(scores, schemaType, adjustment) ==
  LET adjusted == [type |-> schemaType,
                   score |-> Min(ScoreOf(scores, schemaType) + adjustment, 10)]
  IN IF \E i \in 1..Len(scores) : scores[i].type = schemaType
     THEN [i \in 1..Len(scores) |->
             IF scores[i].type = schemaType THEN adjusted ELSE scores[i]]
     ELSE Append(scores, adjusted)

\* url.includes('/' + word), the URL being the sequence of its path segments
UrlIncludes(url, word) == \E i \in 1..Len(url) : url[i] = word

\* adjustScore for each rule, in order, whose condition holds
RECURSIVE AdjustAll(_, _)
AdjustAll(scores, rules) ==
  IF rules = <<>> THEN scores
  ELSE LET adjusted == IF Head(rules).when
                       THEN adjustScore(scores, Head(rules).type, Head(rules).by)
                       ELSE scores
       IN AfterEvaluating(adjusted, AdjustAll(adjusted, Tail(rules)))

adjustScoresBasedOnURL(url, scores) ==
  AdjustAll(scores,
    << [when |-> UrlIncludes(url, "recipe") \/ UrlIncludes(url, "cooking"),
        type |-> "Recipe", by |-> 3],
       [when |-> UrlIncludes(url, "review"), type |-> "Review", by |-> 3],
       [when |-> UrlIncludes(url, "how-to") \/ UrlIncludes(url, "guide"),
        type |-> "HowTo", by |-> 3],
       [when |-> UrlIncludes(url, "product") \/ UrlIncludes(url, "shop"),
        type |-> "Product", by |-> 3],
       [when |-> UrlIncludes(url, "event"), type |-> "Event", by |-> 3],
       [when |-> UrlIncludes(url, "faq") \/ UrlIncludes(url, "help"),
        type |-> "FAQ", by |-> 3],
       [when |-> UrlIncludes(url, "job") \/ UrlIncludes(url, "career"),
        type |-> "JobPosting", by |-> 3],
       [when |-> UrlIncludes(url, "course") \/ UrlIncludes(url, "learn"),
        type |-> "Course", by |-> 3] >>)

\* entityTypes.includes(type)
HasType(entityTypes, type) == \E i \in 1..Len(entityTypes) : entityTypes[i] = type

adjustScoresBasedOnEntities(entityTypes, scores) ==
  AdjustAll(scores,
    << [when |-> HasType(entityTypes, "product"), type |-> "Product", by |-> 2],
       [when |-> HasType(entityTypes, "product"), type |-> "Review", by |-> 1],
       [when |-> HasType(entityTypes, "event"), type |-> "Event", by |-> 3],
       [when |-> HasType(entityTypes, "person") /\ HasType(entityTypes, "organization"),
        type |-> "JobPosting", by |-> 2],
       [when |-> HasType(entityTypes, "location"), type |-> "LocalBusiness", by |-> 2],
       [when |-> HasType(entityTypes, "location"), type |-> "Event", by |-> 1] >>)

\* recommendations.sort((a, b) => b.confidence - a.confidence): a stable
\* sort, the greater confidence first.
RECURSIVE SortByConfidence(_)
SortByConfidence(seq) ==
  IF seq = <<>> THEN <<>>
  ELSE LET sorted == SortByConfidence(SubSeq(seq, 1, Len(seq) - 1))
           last == seq[Len(seq)]
           ahead == Cardinality({i \in 1..Len(sorted) :
                                   sorted[i].confidence >= last.confidence})
       IN SubSeq(sorted, 1, ahead) \o <<last>> \o SubSeq(sorted, ahead + 1, Len(sorted))

\* The recommendations before the fallback is put first.
unshiftNothing(url, recommendations) == recommendations

\* "Always include Article/BlogPosting as fallback"
unshiftFallback(url, recommendations) ==
  IF recommendations = <<>> \/ recommendations[1].confidence < 5
  THEN << [schemaType |-> IF UrlIncludes(url, "blog") THEN "BlogPosting" ELSE "Article",
           confidence |-> 5] >> \o recommendations
  ELSE recommendations

\* recommendSchema(content, title, url, existingEntities): what it returns,
\* less the reasoning and the lists of properties and related types, with
\* the scores it went through.  existingEntities is the sequence of the
\* entities' types, empty when the argument is left out.
recommendSchema(content, title, url, existingEntities) ==
  LET features == extractFeatures(content, title)
      patternScores == [k \in 1..Len(schemaTypePatterns) |->
                          [type |-> schemaTypePatterns[k].type,
                           score |-> patternScore(content, schemaTypePatterns[k].patterns)]]
      featureScores == AfterEvaluating(patternScores,
                         [k \in 1..Len(patternScores) |->
                            [type |-> patternScores[k].type,
                             score |-> patternScores[k].score
                                         + schemaTypeFeatures(patternScores[k].type,
                                                              features)]])
      urlScores == AfterEvaluating(featureScores,
                                   adjustScoresBasedOnURL(url, featureScores))
      scores == IF Len(existingEntities) > 0
                THEN adjustScoresBasedOnEntities(existingEntities, urlScores)
                ELSE urlScores
      above == AfterEvaluating(scores, SelectSeq(scores, LAMBDA entry : entry.score > 3))
      recommendations == [k \in 1..Len(above) |->
                            [schemaType |-> above[k].type,
                             confidence |-> Min(above[k].score, 10)]]
  IN [patternScores |-> patternScores,
      scores |-> scores,
      result |-> AfterEvaluating(recommendations,
                   SliceTo(unshiftFallback(url, SortByConfidence(recommendations)), 3))]

RecommendContents == SeqsUpTo(ContentWords, MaxWords)
Titles == {<<>>, <<"guide">>}
Urls == {<<>>, <<"blog", "guide">>, <<"product", "x">>}
EntityTypeLists == {<<>>, <<"product">>}

NotRecommended == [asked |-> FALSE]

\* new MLRecommendationEngine()
RecommendInit == recommended = NotRecommended

\* A call of recommendSchema.  The engine keeps nothing from one call to the
\* next, so one call is followed.
RecommendSchema ==
  /\ ~recommended.asked
  /\ \E content \in RecommendContents, title \in Titles, url \in Urls,
        existingEntities \in EntityTypeLists :
       recommended' = [asked |-> TRUE, content |-> content, title |-> title,
                       url |-> url, existingEntities |-> existingEntities]
                        @@ recommendSchema(content, title, url, existingEntities)
  /\ UNCHANGED <<graphVars, query, embeddingVars, emitted, page, built, pruned, appVars>>

NextRecommend == RecommendSchema

(***************************************************************************)
(* Part 4: the schema documents (enhanced-generator.ts in its two          *)
(* versions, advanced-nlp-features.ts, exportToSchema of                   *)
(* knowledge-graph-builder.ts, page.tsx).                                  *)
(***************************************************************************)
MaxTyped == 2

\* The entity types of the NLP engine, "material" of the second generator's
\* table, and one type that no table has.
TypePool == {"concept", "product", "service", "organization", "person",
             "location", "event", "medical", "fitness", "material", "team"}

\* typeMapping[entity.type] || 'Thing', second version of the generator
getProperSchemaType(type) ==
  CASE type = "concept" -> "Thing"
    [] type = "product" -> "Product"
    [] type = "service" -> "Service"
    [] type = "organization" -> "Organization"
    [] type = "person" -> "Person"
    [] type = "location" -> "Place"
    [] type = "event" -> "Event"
    [] type = "medical" -> "MedicalEntity"
    [] type = "fitness" -> "Thing"
    [] type = "material" -> "Product"
    [] OTHER -> "Thing"

\* typeMapping[entity.type] || 'Thing', first version of the generator
getSchemaType(type) ==
  CASE type = "concept" -> "Thing"
    [] type = "product" -> "Product"
    [] type = "service" -> "Service"
    [] type = "organization" -> "Organization"
    [] type = "person" -> "Person"
    [] type = "location" -> "Place"
    [] type = "event" -> "Event"
    [] type = "medical" -> "MedicalEntity"
    [] type = "fitness" -> "SportsActivityLocation"
    [] OTHER -> "Thing"

\* typeMap[nodeType] || 'Thing'
mapNodeTypeToSchema(nodeType) ==
  CASE nodeType = "person" -> "Person"
    [] nodeType = "organization" -> "Organization"
    [] nodeType = "product" -> "Product"
    [] nodeType = "service" -> "Service"
    [] nodeType = "location" -> "Place"
    [] nodeType = "event" -> "Event"
    [] nodeType = "concept" -> "Thing"
    [] nodeType = "medical" -> "MedicalEntity"
    [] nodeType = "fitness" -> "ExercisePlan"
    [] OTHER -> "Thing"

\* The early return for names of fitness terms gives 'Thing', and so does the
\* table for the type fitness; for other types in the fitness industry the
\* early return is taken by the names with such a term (namesTerm).
getCorrectSchemaType(type, namesTerm, industry) ==
  IF (type = "fitness" \/ industry = "fitness") /\ namesTerm THEN "Thing"
  ELSE CASE type = "concept" -> "Thing"
         [] type = "product" -> "Product"
         [] type = "service" -> "Service"
         [] type = "organization" -> "Organization"
         [] type = "person" -> "Person"
         [] type = "location" -> "Place"
         [] type = "event" -> "Event"
         [] type = "medical" -> "MedicalEntity"
         [] type = "fitness" -> "Thing"
         [] OTHER -> "Thing"

\* The places that write an "@type" from an entity's or a node's type:
\* createMentions of the two generators and of the NLP features (for the
\* fitness industry, names without a fitness term), and exportToSchema.
Emitters == {"getProperSchemaType", "getSchemaType", "getCorrectSchemaType",
             "mapNodeTypeToSchema"}

SchemaTypeBy(emitter, type) ==
  CASE emitter = "getProperSchemaType" -> getProperSchemaType(type)
    [] emitter = "getSchemaType" -> getSchemaType(type)
    [] emitter = "getCorrectSchemaType" -> getCorrectSchemaType(type, FALSE, "fitness")
    [] emitter = "mapNodeTypeToSchema" -> mapNodeTypeToSchema(type)

NothingEmitted == [asked |-> FALSE]

\* One document: the "@type" of each entity (mentions) or node ("@graph"),
\* in the order of the entities or nodes.
EmitTypes ==
  /\ ~emitted.asked
  /\ \E emitter \in Emitters, types \in SeqsUpTo(TypePool, MaxTyped) :
       emitted' = [asked |-> TRUE, emitter |-> emitter,
                   entries |-> [i \in 1..Len(types) |->
                                  [type |-> types[i],
                                   schemaType |-> SchemaTypeBy(emitter, types[i])]]]
  /\ UNCHANGED <<graphVars, query, embeddingVars, recommended, page, built, pruned, appVars>>

NextTypes == EmitTypes

(***************************************************************************)
(* page.tsx: extractEntities and the about and mentions of                 *)
(* generateSchemaForUrl.  A content is a row of sentences, each sentence   *)
(* one capitalised phrase and its full stop, after an opening of lowercase *)
(* words that name nothing; a phrase is a sequence of words.  Confidences  *)
(* are in thousandths, and 0.7 + 0.1, the double just below 0.8, is 799.   *)
(***************************************************************************)
PageLexicon == <<<<"Bong">>, <<"Dab", "Rig">>, <<"Metal">>, <<"Vaporizer">>,
                 <<"Acme", "Company">>>>
OccurrenceCounts == {0, 1, 4, 6}
OpeningLengths == {0, 50}
PageTypes == {"article", "webpage"}

LowerName(word) ==
  CASE word = "Bong" -> "bong"
    [] word = "Dab" -> "dab"
    [] word = "Rig" -> "rig"
    [] word = "Metal" -> "metal"
    [] word = "Vaporizer" -> "vaporizer"
    [] word = "Acme" -> "acme"
    [] word = "Company" -> "company"
    [] OTHER -> word

NameLength(word) ==
  CASE word \in {"Bong", "bong"} -> 4
    [] word \in {"Dab", "Rig", "dab", "rig"} -> 3
    [] word \in {"Metal", "metal"} -> 5
    [] word \in {"Vaporizer", "vaporizer"} -> 9
    [] word \in {"Acme", "acme"} -> 4
    [] word \in {"Company", "company"} -> 7

\* phrase.toLowerCase()
LowerPhrase(phrase) == [i \in 1..Len(phrase) |-> LowerName(phrase[i])]

\* normalized.includes(term), for a term that is one of the lexicon's words
\* and part of no other
PhraseIncludes(normalized, term) == \E i \in 1..Len(normalized) : normalized[i] = term

RECURSIVE PhraseLength(_)
PhraseLength(phrase) ==
  IF phrase = <<>> THEN 0
  ELSE NameLength(phrase[1]) + (IF Len(phrase) > 1 THEN 1 ELSE 0)
         + PhraseLength(Tail(phrase))

\* The sentences of a content that has counts[k] sentences of the k-th phrase.
RECURSIVE SentencesOf(_, _)
SentencesOf(counts, k) ==
  IF k > Len(PageLexicon) THEN <<>>
  ELSE [i \in 1..counts[k] |-> PageLexicon[k]] \o SentencesOf(counts, k + 1)

PageContents ==
  {[opening |-> opening, sentences |-> SentencesOf(counts, 1)] :
     opening \in OpeningLengths,
     counts \in [1..Len(PageLexicon) -> OccurrenceCounts]}

\* content.length: the opening, and each sentence with its full stop and
\* the space after it
RECURSIVE SentencesLength(_)
SentencesLength(sentences) ==
  IF sentences = <<>> THEN 0
  ELSE PhraseLength(sentences[1]) + 2 + SentencesLength(Tail(sentences))

\* (text.toLowerCase().match(new RegExp(`\\b${normalized}\\b`, 'g')) || []).length
Occurrences(content, normalized) ==
  Cardinality({i \in 1..Len(content.sentences) :
                 LowerPhrase(content.sentences[i]) = normalized})

\* confidence + 0.1 in doubles
AddTenth(confidence) == IF confidence = 700 THEN 799 ELSE confidence + 100

\* The entity of a phrase found in the text.
EntityOf(content, phrase) ==
  LET normalized == LowerPhrase(phrase)
      kind == IF \E term \in {"bong", "pipe", "bubbler", "rig"} :
                   PhraseIncludes(normalized, term)
                THEN [type |-> "product", confidence |-> 900]
              ELSE IF \E term \in {"glass", "silicone", "metal"} :
                        PhraseIncludes(normalized, term)
                THEN [type |-> "material", confidence |-> 850]
              ELSE IF \E term \in {"company", "corporation", "llc", "ltd"} :
                        PhraseIncludes(normalized, term)
                THEN [type |-> "organization", confidence |-> 800]
              ELSE [type |-> "concept", confidence |-> 700]
      occurrences == Occurrences(content, normalized)
      frequent == IF occurrences > 3 THEN AddTenth(kind.confidence) ELSE kind.confidence
      confidence == IF occurrences > 5 THEN AddTenth(frequent) ELSE frequent
  IN [name |-> phrase, type |-> kind.type, confidence |-> Min(confidence, 950)]

\* The phrases of the text in the order of their first match; no phrase of
\* the lexicon is a stop word, begins as an ignored phrase does, or has fewer
\* than 3 or more than 50 characters.
RECURSIVE FoundPhrases(_, _)
FoundPhrases(sentences, found) ==
  IF sentences = <<>> THEN found
  ELSE FoundPhrases(Tail(sentences),
                    IF \E i \in 1..Len(found) : found[i] = sentences[1] THEN found
                    ELSE Append(found, sentences[1]))

extractEntities(content) ==
  LET found == FoundPhrases(content.sentences, <<>>)
      entities == [i \in 1..Len(found) |-> EntityOf(content, found[i])]
  IN SliceTo(SortByConfidence(SelectSeq(entities, LAMBDA e : e.confidence > 600)), 20)

WikipediaUrl(article) == <<"https://en.wikipedia.org/wiki/">> \o article
WikidataUrl(id) == <<"https://www.wikidata.org/wiki/", id>>

\* entity.name.replace(/ /g, '_')
RECURSIVE Underscored(_)
Underscored(name) ==
  IF Len(name) <= 1 THEN name
  ELSE <<name[1], "_">> \o Underscored(Tail(name))

\* The names the about branch knows, and their links; <<>> for any other.
aboutTable(nameLower) ==
  IF nameLower \in {<<"bong">>, <<"bongs">>}
    THEN <<WikipediaUrl(<<"Bong">>), WikidataUrl("Q847027")>>
  ELSE IF nameLower \in {<<"water", "pipe">>, <<"water", "pipes">>}
    THEN <<WikipediaUrl(<<"Water_pipe">>)>>
  ELSE IF nameLower \in {<<"bubbler">>, <<"bubblers">>}
    THEN <<WikipediaUrl(<<"Bong#Bubblers">>)>>
  ELSE IF nameLower \in {<<"percolator">>, <<"percolators">>}
    THEN <<WikipediaUrl(<<"Bong#Percolator">>)>>
  ELSE IF nameLower \in {<<"borosilicate", "glass">>, <<"borosilicate">>}
    THEN <<WikipediaUrl(<<"Borosilicate_glass">>), WikidataUrl("Q413680")>>
  ELSE IF nameLower = <<"silicone">>
    THEN <<WikipediaUrl(<<"Silicone">>), WikidataUrl("Q146439")>>
  ELSE <<>>

\* The links of an about entry with confidence above 0.9.
aboutSameAs(entity) ==
  LET known == aboutTable(LowerPhrase(entity.name))
  IN IF known # <<>> THEN known
     ELSE IF Len(entity.name) <= 2 THEN <<WikipediaUrl(Underscored(entity.name))>>
     ELSE <<>>

\* The names the mentions branch knows, and their links.
mentionTable(nameLower) ==
  IF nameLower \in {<<"glass">>, <<"glass", "pipe">>}
    THEN <<WikipediaUrl(<<"Glass">>)>>
  ELSE IF nameLower = <<"filtration">>
    THEN <<WikipediaUrl(<<"Filtration">>)>>
  ELSE IF nameLower = <<"smoke">>
    THEN <<WikipediaUrl(<<"Smoke">>)>>
  ELSE IF nameLower = <<"cannabis">>
    THEN <<WikipediaUrl(<<"Cannabis">>), WikidataUrl("Q79817")>>
  ELSE <<>>

\* The links of a mention with confidence above 0.75.
mentionSameAs(entity) ==
  LET known == mentionTable(LowerPhrase(entity.name))
  IN IF known # <<>> THEN known
     ELSE IF Len(entity.name) = 1 /\ entity.type = "material"
       THEN <<WikipediaUrl(Underscored(entity.name))>>
     ELSE <<>>

\* seq.slice(from, to)
Slice(seq, from, to) == SubSeq(seq, from + 1, Min(to, Len(seq)))

\* The about and the mentions of the document; an empty sequence is a
\* property that is not set, and so is an empty sameAs.
generateSchemaForUrl(content, pageType) ==
  LET entities == extractEntities(content)
      aboutEntities ==
        SliceTo(SelectSeq(entities, LAMBDA e :
                  /\ e.confidence > 850
                  /\ Occurrences(content, LowerPhrase(e.name)) > 3
                  /\ e.type # "person"
                  /\ Len(e.name) <= 3), 5)
      mentionEntities ==
        SliceTo(SelectSeq(entities, LAMBDA e :
                  /\ e.confidence > 700
                  /\ e.confidence <= 850
                  /\ Occurrences(content, LowerPhrase(e.name)) <= 3
                  /\ Len(e.name) <= 3), 10)
      Named(seq) == [i \in 1..Len(seq) |-> [name |-> seq[i].name, sameAs |-> <<>>]]
  IN IF pageType = "article"
       THEN [type |-> "BlogPosting",
             about |-> [i \in 1..Len(aboutEntities) |->
                          [name |-> aboutEntities[i].name,
                           sameAs |-> IF aboutEntities[i].confidence > 900
                                        THEN aboutSameAs(aboutEntities[i])
                                      ELSE <<>>]],
             mentions |-> [i \in 1..Len(mentionEntities) |->
                             [name |-> mentionEntities[i].name,
                              sameAs |-> IF mentionEntities[i].confidence > 750
                                           THEN mentionSameAs(mentionEntities[i])
                                         ELSE <<>>]]]
     ELSE [type |-> "WebPage",
           about |-> Named(SliceTo(SelectSeq(entities, LAMBDA e : e.confidence > 700), 5)),
           mentions |-> Named(Slice(SelectSeq(entities, LAMBDA e : e.confidence > 600),
                                    5, 15))]

NotGenerated == [asked |-> FALSE]

\* A call of generateSchemaForUrl; it throws for a content of fewer than 50
\* characters.
GenerateSchemaForUrl ==
  /\ ~page.asked
  /\ \E content \in PageContents, pageType \in PageTypes :
       page' = IF content.opening + SentencesLength(content.sentences) < 50
                 THEN [asked |-> TRUE, thrown |-> TRUE, content |-> content,
                       entities |-> <<>>,
                       schema |-> [type |-> "", about |-> <<>>, mentions |-> <<>>]]
               ELSE [asked |-> TRUE, thrown |-> FALSE, content |-> content,
                     entities |-> extractEntities(content),
                     schema |-> generateSchemaForUrl(content, pageType)]
  /\ UNCHANGED <<graphVars, query, embeddingVars, recommended, emitted, built, pruned, appVars>>

NextPage == GenerateSchemaForUrl

(***************************************************************************)
(* enhanced-generator.ts, second version: the HowTo part of buildSchema.   *)
(* A content is a row of items, each a lead ("Step 2: ", "3. ", "First ",  *)
(* "Then, " or nothing) and a sentence that begins with a capital and ends *)
(* with its one full stop; a sentence and a title are sequences of words.  *)
(* No sentence holds a digit or a sequence word.                           *)
(***************************************************************************)
MaxItems == 3

Parts == <<"wheel", "brake", "chain", "pedal", "crank", "frame", "forks",
           "stems", "seats", "posts", "clamp", "cable", "lever", "shift",
           "spoke", "valve", "tyres">>

\* "Tighten the wheel carefully.", 28 characters
Long(k) == <<"Tighten", "the", Parts[k], "carefully">>
\* "TIGHTEN THE WHEEL CAREFULLY."
Shouted == <<"TIGHTEN", "THE", "WHEEL", "CAREFULLY">>
\* "Rinse with water.", 17 characters
Short == <<"Rinse", "with", "water">>

StepLead(number) == [kind |-> "step", number |-> number]
ListLead(number) == [kind |-> "list", number |-> number]
\* "First " and, with its comma, "Then, "
WordLead(word, comma) == [kind |-> "word", word |-> word, comma |-> comma]
NoLead == [kind |-> "none"]

Item(lead, text) == [lead |-> lead, text |-> text]

ItemPool ==
  {Item(StepLead(2), Long(1)), Item(StepLead(1), Long(2)), Item(StepLead(0), Long(3)),
   Item(StepLead(3), Short), Item(ListLead(3), Long(3)), Item(ListLead(1), Shouted),
   Item(WordLead("first", FALSE), Long(2)), Item(WordLead("then", FALSE), Long(3)),
   Item(WordLead("finally", FALSE), Long(1)), Item(WordLead("then", TRUE), Long(3)),
   Item(NoLead, Long(1))}

\* "Step 1: Tighten the wheel carefully. ... Step n: Tighten the ... carefully."
NumberedSteps(n) == [i \in 1..n |-> Item(StepLead(i), Long(i))]
\* "Step 1: Rinse with water. Step 2: ... Step 3: ...", and "First " before a
\* sentence of its own
ShortSteps == <<Item(StepLead(1), Short), Item(StepLead(2), Long(1)),
                Item(StepLead(3), Long(2)), Item(WordLead("first", FALSE), Long(3))>>
\* Steps out of order, one of them twice in different case.
ShuffledSteps == <<Item(StepLead(3), Long(1)), Item(ListLead(1), Shouted),
                   Item(StepLead(2), Long(2)), Item(ListLead(1), Long(3))>>
\* Seventeen steps, the last first.
ManySteps == [i \in 1..17 |-> IF i = 1 THEN Item(ListLead(17), Long(17))
                                 ELSE Item(StepLead(18 - i), Long(18 - i))]

HowToContents ==
  SeqsUpTo(ItemPool, MaxItems)
    \cup {NumberedSteps(3), NumberedSteps(15), ShortSteps, ShuffledSteps, ManySteps,
          NumberedSteps(3) \o <<Item(WordLead("then", TRUE), Long(3))>>,
          NumberedSteps(15) \o <<Item(ListLead(15), Long(15))>>}

HowToTitles == {<<"How", "to", "true", "a", "wheel">>, <<"Step-by-Step", "guide">>,
                <<"Wheel", "guide">>}
HowToUrls == {<<"https://example.com", "/blog", "/wheel">>, <<"https://example.com", "/wheel">>}

LowerStepWord(word) ==
  CASE word \in {"Tighten", "TIGHTEN"} -> "tighten"
    [] word = "THE" -> "the"
    [] word = "WHEEL" -> "wheel"
    [] word = "CAREFULLY" -> "carefully"
    [] word = "Rinse" -> "rinse"
    [] word = "How" -> "how"
    [] word = "Step-by-Step" -> "step-by-step"
    [] word = "Wheel" -> "wheel"
    [] OTHER -> word

StepWordLength(word) ==
  CASE LowerStepWord(word) = "tighten" -> 7
    [] LowerStepWord(word) = "the" -> 3
    [] LowerStepWord(word) = "carefully" -> 9
    [] LowerStepWord(word) = "with" -> 4
    [] OTHER -> 5

\* stepText.toLowerCase()
LowerText(text) == [i \in 1..Len(text) |-> LowerStepWord(text[i])]

\* stepText.length: the words, the spaces between them and the full stop
RECURSIVE StepTextLength(_)
StepTextLength(text) ==
  IF text = <<>> THEN 0
  ELSE StepWordLength(text[1]) + 1 + StepTextLength(Tail(text))

\* titleLower.includes('how to') || titleLower.includes('step-by-step'); no
\* word of a title ends in "how" or begins with "to"
TitleSignalsHowTo(title) ==
  LET titleLower == LowerText(title)
  IN \/ \E i \in 1..(Len(titleLower) - 1) :
          titleLower[i] = "how" /\ titleLower[i + 1] = "to"
     \/ \E i \in 1..Len(titleLower) : titleLower[i] = "step-by-step"

\* The seven stepIndicators, in their order; pattern.test(content)
StepIndicators == <<[kind |-> "step"], [kind |-> "list"],
                    [kind |-> "word", word |-> "first"],
                    [kind |-> "word", word |-> "second"],
                    [kind |-> "word", word |-> "then"],
                    [kind |-> "word", word |-> "next"],
                    [kind |-> "word", word |-> "finally"]>>

IndicatorTest(indicator, content) ==
  \E i \in 1..Len(content) :
    /\ content[i].lead.kind = indicator.kind
    /\ indicator.kind = "word" => content[i].lead.word = indicator.word

\* A mutation: the title alone decides.
isHowToByTitle(title, content) == TitleSignalsHowTo(title)

isRealHowToContent(title, content) ==
  IF ~TitleSignalsHowTo(title) THEN FALSE
  ELSE LET indicatorCount == Cardinality({p \in 1..Len(StepIndicators) :
                                            IndicatorTest(StepIndicators[p], content)})
       IN indicatorCount >= 2

\* matches.forEach((match, index) => ...): a match is pushed unless its text
\* was seen in any case or has at most 20 characters.
RECURSIVE PushSteps(_, _, _, _)
PushSteps(matches, index, steps, numbered) ==
  IF index > Len(matches) THEN steps
  ELSE LET match == matches[index]
           stepText == match.text
           seen == \E k \in 1..Len(steps) : LowerText(steps[k].text) = LowerText(stepText)
           number == IF numbered THEN match.lead.number ELSE index
           step == [position |-> IF numbered /\ number # 0 THEN number ELSE index,
                    name |-> <<"Step", number>>,
                    text |-> stepText]
       IN PushSteps(matches, index + 1,
                    IF ~seen /\ StepTextLength(stepText) > 20 THEN Append(steps, step)
                    ELSE steps,
                    numbered)

\* steps.sort((a, b) => a.position - b.position)
RECURSIVE SortByPosition(_)
SortByPosition(seq) ==
  IF seq = <<>> THEN <<>>
  ELSE LET sorted == SortByPosition(SubSeq(seq, 1, Len(seq) - 1))
           last == seq[Len(seq)]
           ahead == Cardinality({i \in 1..Len(sorted) :
                                   sorted[i].position <= last.position})
       IN AfterEvaluating(sorted,
            SubSeq(sorted, 1, ahead) \o <<last>> \o SubSeq(sorted, ahead + 1, Len(sorted)))

extractRealSteps(content) ==
  LET numberedMatches == SelectSeq(content, LAMBDA item : item.lead.kind \in {"step", "list"})
      numberedSteps == PushSteps(numberedMatches, 1, <<>>, TRUE)
      \* the one character after the word is a space, and not a comma before
      \* a space
      sequentialMatches == SelectSeq(content, LAMBDA item :
                                       item.lead.kind = "word" /\ ~item.lead.comma)
      steps == IF numberedSteps = <<>> THEN PushSteps(sequentialMatches, 1, <<>>, FALSE)
               ELSE numberedSteps
  IN SliceTo(SortByPosition(steps), 15)

\* The "@type" and the step of the document; an empty step is a document
\* without the property.  No content names a duration, so totalTime is not
\* set.
buildSchema(config, contentType) ==
  LET schemaType == IF \E i \in 1..Len(config.url) : config.url[i] = "/blog"
                      THEN "BlogPosting"
                    ELSE IF contentType = "Review" THEN "Review"
                    ELSE IF contentType = "ScholarlyArticle" THEN "ScholarlyArticle"
                    ELSE "Article"
      steps == IF isRealHowToContent(config.title, config.content)
                 THEN extractRealSteps(config.content)
               ELSE <<>>
  IN IF Len(steps) > 2 /\ Len(steps) < 20
       THEN [type |-> <<schemaType, "HowTo">>, step |-> steps]
     ELSE [type |-> <<schemaType>>, step |-> <<>>]

NotBuilt == [asked |-> FALSE]

\* A call of buildSchema.
BuildSchema ==
  /\ ~built.asked
  /\ \E title \in HowToTitles, content \in HowToContents, url \in HowToUrls,
        contentType \in {"Article", "Review"} :
       built' = [asked |-> TRUE, title |-> title, content |-> content,
                 schema |-> buildSchema([title |-> title, content |-> content,
                                         url |-> url], contentType)]
  /\ UNCHANGED <<graphVars, query, embeddingVars, recommended, emitted, page, pruned, appVars>>

NextBuild == BuildSchema

(***************************************************************************)
(* page.tsx: cleanSchemaProperty, and the pruning of the generated         *)
(* document, JSON.parse(JSON.stringify(generatedSchema, replacer)).  A     *)
(* value is undefined, null, a string (a sequence of characters), a        *)
(* number, an array, or an object, the sequence of its properties in       *)
(* insertion order.                                                        *)
(***************************************************************************)
MaxLength == 2

JsonUndefined == [kind |-> "undefined"]
JsonNull == [kind |-> "null"]
Str(chars) == [kind |-> "string", chars |-> chars]
Num(n) == [kind |-> "number", n |-> n]
Arr(items) == [kind |-> "array", items |-> items]
Obj(props) == [kind |-> "object", props |-> props]
Prop(key, value) == [key |-> key, value |-> value]

Leaves == {JsonUndefined, JsonNull, Str(<<>>), Str(<<" ">>), Str(<<"x">>), Num(1)}

ArraysOf(S) == {Arr(items) : items \in SeqsUpTo(S, MaxLength)}
ObjectsOf(S) ==
  {Obj(<<>>)} \cup {Obj(<<Prop("a", v)>>) : v \in S}
    \cup {Obj(<<Prop("a", v), Prop("b", w)>>) : v \in S, w \in S}

\* A value, the array of it alone and the object of it alone.
Wrapped(S) == S \cup {Arr(<<v>>) : v \in S} \cup {Obj(<<Prop("a", v)>>) : v \in S}

JsonValues == Wrapped(Wrapped(Leaves \cup ArraysOf(Leaves) \cup ObjectsOf(Leaves)))

\* Documents with and without a "@context".
Documents ==
  {Obj(<<Prop("@context", Str(<<"x">>)), Prop("about", v)>>) : v \in JsonValues}
    \cup {Obj(<<Prop("about", v)>>) : v \in JsonValues}

\* value.trim() === ''
IsBlank(chars) == \A i \in 1..Len(chars) : chars[i] \in Whitespace

\* A mutation: an object is kept when it has a key, whatever the values.
cleanSchemaPropertyShallow(value) ==
  IF value.kind \in {"null", "undefined"} THEN JsonUndefined
  ELSE IF value.kind = "string" /\ IsBlank(value.chars) THEN JsonUndefined
  ELSE IF value.kind = "array" /\ Len(value.items) = 0 THEN JsonUndefined
  ELSE IF value.kind = "object" /\ Len(value.props) = 0 THEN JsonUndefined
  ELSE value

RECURSIVE cleanSchemaProperty(_)
cleanSchemaProperty(value) ==
  IF value.kind \in {"null", "undefined"} THEN JsonUndefined
  ELSE IF value.kind = "string" /\ IsBlank(value.chars) THEN JsonUndefined
  ELSE IF value.kind = "array" /\ Len(value.items) = 0 THEN JsonUndefined
  ELSE IF value.kind = "object"
    THEN LET all == [i \in 1..Len(value.props) |->
                       Prop(value.props[i].key, cleanSchemaProperty(value.props[i].value))]
             cleaned == SelectSeq(all, LAMBDA p : p.value # JsonUndefined)
         IN IF cleaned # <<>> THEN Obj(cleaned) ELSE JsonUndefined
  ELSE value

\* What JSON.parse reads back for a property whose value went through the
\* replacer: undefined for a property that is left out; in an array, null
\* in the place of an element the replacer made undefined.
RECURSIVE SerializeProperty(_)
SerializeProperty(held) ==
  LET value == cleanSchemaProperty(held)
  IN IF value.kind = "array"
       THEN Arr([i \in 1..Len(value.items) |->
                   LET element == SerializeProperty(value.items[i])
                   IN IF element = JsonUndefined THEN JsonNull ELSE element])
     ELSE IF value.kind = "object"
       THEN LET all == [i \in 1..Len(value.props) |->
                          Prop(value.props[i].key, SerializeProperty(value.props[i].value))]
            IN Obj(SelectSeq(all, LAMBDA p : p.value # JsonUndefined))
     ELSE value

\* JSON.parse(JSON.stringify(generatedSchema, replacer)); JSON.stringify
\* gives undefined when the replacer drops the document, and JSON.parse
\* throws on it.
Pruning(generatedSchema) ==
  LET cleanSchema == SerializeProperty(generatedSchema)
  IN IF cleanSchema = JsonUndefined THEN [thrown |-> TRUE]
     ELSE [thrown |-> FALSE, schema |-> cleanSchema]

NotPruned == [asked |-> FALSE, again |-> FALSE]

\* The end of generateSchemaForUrl, for a generated document.
CleanSchema ==
  /\ ~pruned.asked
  /\ \E generatedSchema \in Documents :
       pruned' = [asked |-> TRUE, again |-> FALSE, generatedSchema |-> generatedSchema,
                  first |-> Pruning(generatedSchema)]
  /\ UNCHANGED <<graphVars, query, embeddingVars, recommended, emitted, page, built, appVars>>

\* The same pruning, of the document it returned.
CleanAgain ==
  /\ pruned.asked
  /\ ~pruned.again
  /\ ~pruned.first.thrown
  /\ pruned' = [pruned EXCEPT !.again = TRUE] @@ [second |-> Pruning(pruned.first.schema)]
  /\ UNCHANGED <<graphVars, query, embeddingVars, recommended, emitted, page, built, appVars>>

NextClean == CleanSchema \/ CleanAgain

SchemaInit ==
  /\ emitted = NothingEmitted
  /\ page = NotGenerated
  /\ built = NotBuilt
  /\ pruned = NotPruned

(***************************************************************************)
(* Part 5: the scrape route (app/api/scrape/route.ts), the page's handlers *)
(* (page.tsx) and the numeric routines.                                    *)
(***************************************************************************)
(***************************************************************************)
(* extractDataFromHTML.  A markup is told by what the function reads from  *)
(* it: its blocks of structured data, whether it has an og:site_name and   *)
(* an og:image, and the text of its <article>, a sequence of characters,   *)
(* or no article.  A block is a text that is not JSON, or a JSON value.    *)
(***************************************************************************)
MaxBlocks == 2

Thrown == [kind |-> "thrown"]
NotJson == [kind |-> "not json"]

WithName(field) == Obj(<<Prop(field, Obj(<<Prop("name", Str(<<"x">>))>>))>>)
Graph(value) == Obj(<<Prop("@graph", value)>>)

Blocks == {NotJson, JsonNull, Num(1), Str(<<"x">>), Obj(<<>>), WithName("publisher"),
           WithName("author"), Graph(Arr(<<WithName("author")>>)),
           Graph(Arr(<<JsonNull>>)), Graph(Obj(<<>>))}

ArticleTexts == {<<"a">>, <<"a", "(", "b", ")">>, <<"a", "(", "b">>, <<"a", ".", " ", "b", "?">>}

Markups ==
  {[blocks |-> blocks, siteName |-> siteName, image |-> image, article |-> article] :
     blocks \in SeqsUpTo(Blocks, MaxBlocks), siteName \in BOOLEAN, image \in BOOLEAN,
     article \in ArticleTexts \cup {<<>>}}

\* value[key]: a TypeError on null and undefined, undefined on a value
\* without the property
Member(value, key) ==
  IF value.kind \in {"null", "undefined", "thrown"} THEN Thrown
  ELSE IF value.kind = "object" /\ \E i \in 1..Len(value.props) : value.props[i].key = key
    THEN value.props[CHOOSE i \in 1..Len(value.props) : value.props[i].key = key].value
  ELSE JsonUndefined

\* value[key]?.name
NameOf(value, key) ==
  LET held == Member(value, key)
  IN IF held.kind \in {"null", "undefined"} THEN JsonUndefined ELSE Member(held, "name")

IsTruthy(value) ==
  ~ \/ value.kind \in {"null", "undefined"}
    \/ value = Str(<<>>)
    \/ value = Num(0)

\* for (const item of value): the elements of an array, the characters of a
\* string, and a TypeError on anything else
Items(value) ==
  IF value.kind = "array" THEN value.items
  ELSE IF value.kind = "string" THEN [i \in 1..Len(value.chars) |-> Str(<<value.chars[i]>>)]
  ELSE <<Thrown>>

\* The loop over schema['@graph'] for the organization name.
RECURSIVE GraphOrganization(_, _, _)
GraphOrganization(items, i, organizationName) ==
  IF i > Len(items) THEN organizationName
  ELSE IF items[i] = Thrown \/ Member(items[i], "@type") = Thrown THEN Thrown
  ELSE IF Member(items[i], "@type") = Str(<<"Organization">>) /\ IsTruthy(Member(items[i], "name"))
    THEN Member(items[i], "name")
  ELSE IF IsTruthy(NameOf(items[i], "publisher")) THEN NameOf(items[i], "publisher")
  ELSE GraphOrganization(items, i + 1, organizationName)

\* The loop over existingSchemas for the organization name.
RECURSIVE SchemaOrganization(_, _, _)
SchemaOrganization(existingSchemas, i, organizationName) ==
  IF i > Len(existingSchemas) THEN organizationName
  ELSE LET schema == existingSchemas[i]
       IN IF NameOf(schema, "publisher") = Thrown THEN Thrown
          ELSE IF IsTruthy(NameOf(schema, "publisher")) THEN NameOf(schema, "publisher")
          ELSE IF IsTruthy(Member(schema, "@graph"))
            THEN LET inGraph == GraphOrganization(Items(Member(schema, "@graph")), 1,
                                                  organizationName)
                 IN IF inGraph = Thrown THEN Thrown
                    ELSE SchemaOrganization(existingSchemas, i + 1, inGraph)
          ELSE SchemaOrganization(existingSchemas, i + 1, organizationName)

\* The loop over schema['@graph'] for the author.
RECURSIVE GraphAuthor(_, _, _)
GraphAuthor(items, i, authorName) ==
  IF i > Len(items) THEN authorName
  ELSE IF items[i] = Thrown \/ NameOf(items[i], "author") = Thrown THEN Thrown
  ELSE IF IsTruthy(NameOf(items[i], "author")) THEN NameOf(items[i], "author")
  ELSE GraphAuthor(items, i + 1, authorName)

\* The loop over existingSchemas for the author.
RECURSIVE SchemaAuthor(_, _, _)
SchemaAuthor(existingSchemas, i, authorName) ==
  IF i > Len(existingSchemas) THEN authorName
  ELSE LET schema == existingSchemas[i]
       IN IF NameOf(schema, "author") = Thrown THEN Thrown
          ELSE IF IsTruthy(NameOf(schema, "author")) THEN NameOf(schema, "author")
          ELSE IF IsTruthy(Member(schema, "@graph"))
            THEN LET inGraph == GraphAuthor(Items(Member(schema, "@graph")), 1, authorName)
                 IN IF inGraph = Thrown THEN Thrown
                    ELSE SchemaAuthor(existingSchemas, i + 1, inGraph)
          ELSE SchemaAuthor(existingSchemas, i + 1, authorName)

\* new RegExp(source): a SyntaxError for a source with a bracket that is not
\* closed or not opened
RECURSIVE Balanced(_, _)
Balanced(source, open) ==
  IF source = <<>> THEN open = 0
  ELSE IF source[1] = "(" THEN Balanced(Tail(source), open + 1)
  ELSE IF source[1] = ")" THEN open > 0 /\ Balanced(Tail(source), open - 1)
  ELSE Balanced(Tail(source), open)

\* The fields the function finds in the structured data and the article;
\* thrown where it raises.  The organization name falls back to the host
\* name of the URL, which is valid.
extractDataFromHTML(html) ==
  LET parsed == SelectSeq(html.blocks, LAMBDA block : block # NotJson)
      existingSchemas == parsed
      ogSiteName == IF html.siteName THEN Str(<<"site">>) ELSE Str(<<>>)
      inSchemas == IF ~IsTruthy(ogSiteName) /\ Len(existingSchemas) > 0
                     THEN SchemaOrganization(existingSchemas, 1, ogSiteName)
                   ELSE ogSiteName
      organizationName == IF inSchemas = Thrown THEN Thrown
                          ELSE IF IsTruthy(inSchemas) THEN inSchemas
                          ELSE Str(<<"host">>)
      authorName == IF Len(existingSchemas) > 0
                      THEN SchemaAuthor(existingSchemas, 1, Str(<<>>))
                    ELSE Str(<<>>)
      \* <article>text</article>, the longest match of the content patterns
      bestContent == IF html.article = <<>> THEN <<>>
                     ELSE <<"<article>">> \o html.article \o <<"</article>">>
      \* the last of the imagePatterns, made when there is no og:image
      imagePattern == (IF bestContent # <<>> THEN bestContent ELSE <<"<article">>)
                        \o <<"[^>]*>[sS]*?<img[^>]+src=[\"']", "(", "[^\"']+", ")",
                             "[\"'][^>]*>">>
  IN IF organizationName = Thrown \/ authorName = Thrown THEN [thrown |-> TRUE]
     ELSE IF ~html.image /\ ~Balanced(imagePattern, 0) THEN [thrown |-> TRUE]
     ELSE [thrown |-> FALSE,
           organizationName |-> organizationName,
           authorName |-> authorName,
           existingSchemas |-> existingSchemas,
           content |-> html.article]

\* A call of extractDataFromHTML.
ExtractDataFromHTML ==
  /\ ~extracted.asked
  /\ \E html \in Markups :
       extracted' = [asked |-> TRUE, html |-> html] @@ extractDataFromHTML(html)
  /\ UNCHANGED <<graphVars, query, embeddingVars, schemaVars, fetched, uiVars, nlpVars>>

NextExtract == ExtractDataFromHTML

(***************************************************************************)
(* The route's POST and the page's processSingleUrl.  A scrape is told by  *)
(* what comes back: a failure of the route, or a document with a content   *)
(* of some length.  A schema is told by the URL and the content length it  *)
(* was generated from.                                                     *)
(***************************************************************************)
MinimalContent == 100
InsufficientContent == 50
ContentLengths == {0, 49, 50, 99, 100, 499, 500}
PageUrls == {"a", "b"}

\* POST: the response for a URL whose extraction gave a content of the
\* given length, with the warning the route adds; failed when the scrape
\* raised
Failed == [ok |-> FALSE]
POST(url, contentLength) ==
  [ok |-> TRUE, url |-> url, contentLength |-> contentLength,
   warning |-> (contentLength = 0 \/ contentLength < MinimalContent)]
Responses(url) == {Failed} \cup {POST(url, n) : n \in ContentLengths}

\* generateSchemaForUrl raises on a content under 50 characters
HasContentForSchema(urlData) ==
  ~(urlData.contentLength = 0 \/ urlData.contentLength < InsufficientContent)
SchemaFor(urlData) == [url |-> urlData.url, contentLength |-> urlData.contentLength]

NoSchema == [url |-> ""]
NoContent == [ok |-> FALSE]
NotSingle ==
  [singleUrl |-> "", loading |-> FALSE, currentSchema |-> NoSchema,
   processedUrls |-> <<>>, scrapedContent |-> NoContent, manualMode |-> FALSE,
   pc |-> "idle", url |-> "", last |-> NoContent, synthesized |-> FALSE]

\* The user edits the URL field; the effect on singleUrl clears the page.
SetSingleUrl ==
  \E url \in PageUrls \cup {""} :
    /\ url # single.singleUrl
    /\ single' = [single EXCEPT !.singleUrl = url, !.scrapedContent = NoContent,
                                !.currentSchema = NoSchema, !.manualMode = FALSE]
    /\ UNCHANGED <<graphVars, query, embeddingVars, schemaVars, routeVars, bulk, nlpVars>>

\* processSingleUrl, up to its await of scrapeUrl.  The button is disabled
\* while loading and in manual mode without a manual content.
ProcessSingleUrl ==
  /\ ~single.loading
  /\ ~single.manualMode
  /\ single.singleUrl # ""
  /\ single' = [single EXCEPT !.loading = TRUE, !.currentSchema = NoSchema,
                              !.processedUrls = <<>>, !.pc = "scrapeUrl",
                              !.url = single.singleUrl]
  /\ UNCHANGED <<graphVars, query, embeddingVars, schemaVars, routeVars, bulk, nlpVars>>

\* processSingleUrl, from the response of the scrape to its end.
SingleUrlScraped ==
  /\ single.pc = "scrapeUrl"
  /\ \E scrapedData \in Responses(single.url) :
       IF \/ ~scrapedData.ok
          \/ scrapedData.contentLength = 0
          \/ scrapedData.contentLength < MinimalContent
          \/ ~HasContentForSchema(scrapedData)
         THEN single' = [single EXCEPT !.manualMode = TRUE, !.loading = FALSE,
                                       !.pc = "idle", !.last = scrapedData,
                                       !.synthesized = FALSE]
       ELSE single' = [single EXCEPT !.scrapedContent = scrapedData,
                                     !.currentSchema = SchemaFor(scrapedData),
                                     !.processedUrls =
                                       <<[url |-> single.url, status |-> "completed",
                                          schema |-> SchemaFor(scrapedData)]>>,
                                     !.loading = FALSE, !.pc = "idle",
                                     !.last = scrapedData, !.synthesized = TRUE]
  /\ UNCHANGED <<graphVars, query, embeddingVars, schemaVars, routeVars, bulk, nlpVars>>

\* The user leaves manual mode with the button under the manual form.
LeaveManualMode ==
  /\ single.manualMode
  /\ single' = [single EXCEPT !.manualMode = FALSE]
  /\ UNCHANGED <<graphVars, query, embeddingVars, schemaVars, routeVars, bulk, nlpVars>>

NextSingle == SetSingleUrl \/ ProcessSingleUrl \/ SingleUrlScraped \/ LeaveManualMode

(***************************************************************************)
(* The page's processBulkUrls.  The bulk field is a sequence of lines, a   *)
(* blank line being the empty string; the field is never without a line.   *)
(***************************************************************************)
MaxLines == 2
BulkFields == SeqsUpTo(PageUrls \cup {""}, MaxLines) \ {<<>>}

NotBulk ==
  [bulkUrls |-> <<"">>, loading |-> FALSE, processedUrls |-> <<>>,
   pc |-> "idle", urls |-> <<>>, i |-> 0]

WithStatus(b, status) ==
  [b EXCEPT !.processedUrls =
     [idx \in 1..Len(b.processedUrls) |->
        IF idx = b.i THEN [b.processedUrls[idx] EXCEPT !.status = status]
        ELSE b.processedUrls[idx]]]

\* The head of the loop at index i: the next URL is set to processing and
\* its scrape is awaited, or the loop is over and loading is set to false.
Iterate(b, i) ==
  IF i <= Len(b.urls)
    THEN [WithStatus([b EXCEPT !.i = i], "processing") EXCEPT !.pc = "scrapeUrl"]
  ELSE [b EXCEPT !.i = i, !.loading = FALSE, !.pc = "idle"]

\* The catch of the loop body, which stops with the failure of the URL.
CaughtAndStopped(b) ==
  [WithStatus(b, "error") EXCEPT !.loading = FALSE, !.pc = "idle"]

\* The catch of the loop body.
Caught(b) ==
  Iterate(WithStatus(b, "error"), b.i + 1)

\* The user edits the bulk field.
SetBulkUrls ==
  \E lines \in BulkFields :
    /\ lines # bulk.bulkUrls
    /\ bulk' = [bulk EXCEPT !.bulkUrls = lines]
    /\ UNCHANGED <<graphVars, query, embeddingVars, schemaVars, routeVars, single, nlpVars>>

\* processBulkUrls, up to its first await.  The button is disabled while
\* loading and on an empty field.
ProcessBulkUrls ==
  /\ ~bulk.loading
  /\ bulk.bulkUrls # <<"">>
  /\ LET urls == SelectSeq(bulk.bulkUrls, LAMBDA url : url # "")
     IN /\ urls # <<>>
        /\ bulk' = Iterate([bulk EXCEPT !.loading = TRUE, !.urls = urls,
                                        !.processedUrls =
                                          [idx \in 1..Len(urls) |->
                                             [url |-> urls[idx], status |-> "pending"]]],
                           1)
  /\ UNCHANGED <<graphVars, query, embeddingVars, schemaVars, routeVars, single, nlpVars>>

\* The loop body from the response of the scrape to its next await.
BulkUrlScraped ==
  /\ bulk.pc = "scrapeUrl"
  /\ \E scrapedData \in Responses(bulk.urls[bulk.i]) :
       IF \/ ~scrapedData.ok
          \/ scrapedData.contentLength = 0
          \/ scrapedData.contentLength < MinimalContent
          \/ ~HasContentForSchema(scrapedData)
         THEN bulk' = Caught(bulk)
       ELSE bulk' = [WithStatus(bulk, "completed") EXCEPT !.pc = "delay"]
  /\ UNCHANGED <<graphVars, query, embeddingVars, schemaVars, routeVars, single, nlpVars>>

\* The delay after a completed URL is over.
BulkDelayed ==
  /\ bulk.pc = "delay"
  /\ bulk' = Iterate(bulk, bulk.i + 1)
  /\ UNCHANGED <<graphVars, query, embeddingVars, schemaVars, routeVars, single, nlpVars>>

NextBulk == SetBulkUrls \/ ProcessBulkUrls \/ BulkUrlScraped \/ BulkDelayed

(***************************************************************************)
(* The route's scrapeWithRetry.  A fetch is told by how it settles: it is  *)
(* rejected, or it gives a response that is not OK, or an OK response with *)
(* a text of some length.  attempts is the record of the fetches made.     *)
(***************************************************************************)
MAX_RETRIES == 3
MinResponseLength == 1000
ResponseLengths == {0, 999, 1000, 1001}

Settlements ==
  {[rejected |-> TRUE, ok |-> FALSE, length |-> 0],
   [rejected |-> FALSE, ok |-> FALSE, length |-> 0]}
    \cup {[rejected |-> FALSE, ok |-> TRUE, length |-> n] : n \in ResponseLengths}

\* render_js of an attempt
renderJs(attempt) == attempt <= 2

\* the body of the try raises on this settlement
Raises(settled) ==
  settled.rejected \/ ~settled.ok \/ settled.length < MinResponseLength

\* the catch retries after one more failure than the code allows
RetriesOnceMore(attempt) == attempt < MAX_RETRIES + 1

\* the catch retries
Retries(attempt) == attempt < MAX_RETRIES

NotFetched == [pc |-> "idle", attempts |-> <<>>]

Fetching(attempt, delayed) ==
  [attempt |-> attempt, renderJs |-> renderJs(attempt), delayed |-> delayed,
   settled |-> FALSE]

\* A call of scrapeWithRetry, up to its fetch.
ScrapeWithRetry ==
  /\ fetched.pc = "idle"
  /\ fetched' = [pc |-> "fetch", attempts |-> <<Fetching(1, FALSE)>>]
  /\ UNCHANGED <<graphVars, query, embeddingVars, schemaVars, extracted, uiVars, nlpVars>>

\* The fetch of the attempt settles: the text is returned, or the catch
\* starts the delay of the retry, or it raises the error again.
FetchSettled ==
  /\ fetched.pc = "fetch"
  /\ \E settlement \in Settlements :
       LET attempt == Len(fetched.attempts)
           attempts == [fetched.attempts EXCEPT
                          ![attempt] = [@ EXCEPT !.settled = TRUE] @@ settlement]
       IN fetched' =
            IF ~Raises(settlement)
              THEN [pc |-> "returned", attempts |-> attempts, html |-> settlement.length]
            ELSE IF Retries(attempt) THEN [pc |-> "delay", attempts |-> attempts]
            ELSE [pc |-> "thrown", attempts |-> attempts, error |-> attempt]
  /\ UNCHANGED <<graphVars, query, embeddingVars, schemaVars, extracted, uiVars, nlpVars>>

\* The delay of the retry is over: the next attempt, up to its fetch.
RetryDelayed ==
  /\ fetched.pc = "delay"
  /\ fetched' = [pc |-> "fetch",
                 attempts |-> Append(fetched.attempts,
                                     Fetching(Len(fetched.attempts) + 1, TRUE))]
  /\ UNCHANGED <<graphVars, query, embeddingVars, schemaVars, extracted, uiVars, nlpVars>>

NextScrape == ScrapeWithRetry \/ FetchSettled \/ RetryDelayed

(***************************************************************************)
(* clusterEmbeddings (vector-entries-engine.ts).  The store is a        *)
(* sequence of entries as before; its vectors are drawn from a few unit    *)
(* vectors of a small dimension.  Math.random is a choice among the        *)
(* indices it can lead to.                                                 *)
(***************************************************************************)
MaxStored == 3
Dimension == 2
maxRounds == 50
convergedAt == 990

Axis(a) == [j \in 1..Dimension |-> IF j = a THEN Unit ELSE 0]
Slanted == [j \in 1..Dimension |-> IF j = 1 THEN 600 ELSE IF j = 2 THEN 800 ELSE 0]
StoredVectors == {Axis(1), Axis(2), Slanted}
Stores ==
  {[i \in 1..Len(vectors) |-> [id |-> <<"e", i>>, vector |-> vectors[i]]] :
     vectors \in SeqsUpTo(StoredVectors, MaxStored)}
ClusterCounts == {0, 1, 2, 3, 5}

\* 1 - this.cosineSimilarity(vector, centroid)
Distance(vector, centroid) == Unit - cosineSimilarity(vector, centroid)

Least(S) == CHOOSE x \in S : \A y \in S : x <= y

\* The lists of centroids initializeCentroids can return, indices being
\* the indices chosen so far; the next index is one that was not chosen
\* and is away from the centroids, or the first one that was not chosen.
RECURSIVE MoreCentroids(_, _, _, _, _)
MoreCentroids(entries, k, i, centroids, indices) ==
  IF i >= k THEN {centroids}
  ELSE LET distances == [j \in 1..Len(entries) |->
                           IF j \in indices THEN 0
                           ELSE Least({Distance(entries[j].vector, centroids[c]) :
                                         c \in 1..Len(centroids)})]
           free == (1..Len(entries)) \ indices
           first == CHOOSE j \in free : \A other \in free : j <= other
           next == {first} \cup {j \in free : distances[j] > 0}
       IN AfterEvaluating(
            <<centroids, distances>>,
            UNION {MoreCentroids(entries, k, i + 1,
                               Append(centroids, entries[j].vector),
                               indices \cup {j}) : j \in next})

\* The lists of centroids initializeCentroids can return; it returns none
\* and raises on no embedding, reading the vector of the first one.
initializeCentroids(entries, k) ==
  IF entries = <<>> THEN {}
  ELSE UNION {MoreCentroids(entries, k, 1, <<entries[firstIndex].vector>>,
                            {firstIndex}) : firstIndex \in 1..Len(entries)}

\* The cluster an embedding is assigned to: the first of the closest.
closestCluster(vector, centroids, numClusters) ==
  LET distances == [i \in 1..numClusters |-> Distance(vector, centroids[i])]
  IN AfterEvaluating(
       distances,
       IF numClusters = 0 THEN 1
       ELSE CHOOSE i \in 1..numClusters :
              /\ \A other \in 1..numClusters : distances[i] <= distances[other]
              /\ \A before \in 1..(i - 1) : distances[before] > distances[i])

\* The clusters after the assignment of a round, as the lists of ids in the
\* order of the store.
Assigned(entries, centroids, numClusters) ==
  LET closest == [e \in 1..Len(entries) |->
                    closestCluster(entries[e].vector, centroids, numClusters)]
  IN AfterEvaluating(
       closest,
       [i \in 1..numClusters |->
          LET members == SelectSeq([e \in 1..Len(entries) |-> e],
                                   LAMBDA e : closest[e] = i)
          IN [m \in 1..Len(members) |-> entries[members[m]].id]])

updateCentroids(clusters, entries) ==
  [i \in 1..Len(clusters) |->
     IF clusters[i] = <<>> THEN [j \in 1..Dimension |-> 0]
     ELSE LET vectors == [m \in 1..Len(clusters[i]) |->
                            (CHOOSE e \in Range(entries) : e.id = clusters[i][m]).vector]
              centroid == [j \in 1..Dimension |->
                             SumOf([m \in 1..Len(vectors) |-> vectors[m][j]], 1, Len(vectors))
                               \div Len(clusters[i])]
          IN normalizeVector(centroid)]

\* The loop of clusterEmbeddings from the given round on: the clusters of
\* the last round run and the number of rounds run.  A round takes nothing
\* but the centroids from the round before: once a round leaves them as
\* they were without having converged, every round to the last does.
RECURSIVE Iterations(_, _, _, _)
Iterations(entries, centroids, numClusters, iteration) ==
  LET clusters == Assigned(entries, centroids, numClusters)
      newCentroids == updateCentroids(clusters, entries)
      converged == \A i \in 1..numClusters :
                     ~(cosineSimilarity(centroids[i], newCentroids[i]) < convergedAt)
  IN AfterEvaluating(
       <<centroids, clusters, newCentroids>>,
       IF converged \/ iteration + 1 >= maxRounds
         THEN [clusters |-> clusters, rounds |-> iteration + 1]
       ELSE IF newCentroids = centroids
         THEN [clusters |-> clusters, rounds |-> maxRounds]
       ELSE Iterations(entries, newCentroids, numClusters, iteration + 1))

\* The outcomes of clusterEmbeddings(numClusters) on a store.  With no
\* cluster the first assignment pushes to a list that is not there.
clusterEmbeddings(entries, k) ==
  LET numClusters == IF Len(entries) < k THEN Len(entries) ELSE k
  IN IF initializeCentroids(entries, numClusters) = {} THEN {[thrown |-> TRUE]}
     ELSE {IF numClusters = 0 THEN [thrown |-> TRUE]
           ELSE [thrown |-> FALSE] @@ Iterations(entries, centroids, numClusters, 0) :
             centroids \in initializeCentroids(entries, numClusters)}

NotClustered == [asked |-> FALSE]

\* A call of clusterEmbeddings.
ClusterEmbeddings ==
  /\ ~clustered.asked
  /\ \E store \in Stores, k \in ClusterCounts :
       \E returned \in clusterEmbeddings(store, k) :
         clustered' = [asked |-> TRUE, embeddings |-> store, k |-> k] @@ returned
  /\ UNCHANGED <<graphVars, query, embeddingVars, schemaVars, routeVars, uiVars,
                 resolved, sentiment, queried>>

NextCluster == ClusterEmbeddings

(***************************************************************************)
(* postProcessEntities (advanced-nlp-features.ts).  An entity is told by   *)
(* its span and its confidence, in tenths; a span is that of a match and   *)
(* has a character at least.                                               *)
(***************************************************************************)
MaxCandidates == 3
NamedEntities ==
  {entity \in [startIndex : 0..2, endIndex : 1..3, confidence : {5, 9}] :
     entity.startIndex < entity.endIndex}

\* entities.sort((a, b) => a.startIndex - b.startIndex): a stable sort
RECURSIVE SortByStart(_)
SortByStart(entities) ==
  IF entities = <<>> THEN <<>>
  ELSE LET sorted == SortByStart(SubSeq(entities, 1, Len(entities) - 1))
           last == entities[Len(entities)]
           ahead == Cardinality({i \in 1..Len(sorted) :
                                   sorted[i].startIndex <= last.startIndex})
       IN SubSeq(sorted, 1, ahead) \o <<last>> \o SubSeq(sorted, ahead + 1, Len(sorted))

\* the candidate takes the place of the last entity whatever its confidence
ReplacesAlways(entity, lastEntity) == TRUE

\* the candidate takes the place of the last entity
Replaces(entity, lastEntity) == entity.confidence > lastEntity.confidence

\* The body of the loop: merged after the candidate.
MergeEntity(merged, entity) ==
  IF merged = <<>> \/ entity.startIndex >= merged[Len(merged)].endIndex
    THEN Append(merged, entity)
  ELSE IF Replaces(entity, merged[Len(merged)])
    THEN [merged EXCEPT ![Len(merged)] = entity]
  ELSE merged

\* merged after each of the first n candidates, in the order of the sort
RECURSIVE MergedAfter(_, _)
MergedAfter(sorted, n) ==
  IF n = 0 THEN <<>> ELSE MergeEntity(MergedAfter(sorted, n - 1), sorted[n])

postProcessEntities(entities) ==
  MergedAfter(SortByStart(entities), Len(entities))

NotResolved == [asked |-> FALSE]

\* A call of postProcessEntities; sorted is the array after the sort in
\* place.
PostProcessEntities ==
  /\ ~resolved.asked
  /\ \E entities \in SeqsUpTo(NamedEntities, MaxCandidates) :
       resolved' = [asked |-> TRUE, entities |-> entities,
                    sorted |-> SortByStart(entities),
                    merged |-> postProcessEntities(entities)]
  /\ UNCHANGED <<graphVars, query, embeddingVars, schemaVars, routeVars, uiVars,
                 clustered, sentiment, queried>>

NextResolve == PostProcessEntities

(***************************************************************************)
(* calculateSentenceSentiment (advanced-nlp-features.ts).  A sentence is   *)
(* the sequence of its words; scores are in ten-thousandths, so that the   *)
(* products of the model's sentences are whole.                            *)
(***************************************************************************)
MaxTokens == 3
SentimentUnit == 10 ^ 4

SentenceWords == {"good", "bad", "very", "extremely", "not", "Not", "somewhat", "the"}

\* The entries of the sentiment lexicon for the words above.
sentimentLexicon ==
  [good |-> 6000, bad |-> 0 - 7000, very |-> 15000, extremely |-> 20000,
   somewhat |-> 8000, not |-> 0 - 10000]

\* this.tokenize(sentence.toLowerCase()): every word, in lower case
SentimentTokens(sentence) ==
  [i \in 1..Len(sentence) |-> IF sentence[i] = "Not" THEN "not" ELSE sentence[i]]

\* sentiment > 1 || sentiment < -1
IsModifier(found) == found > SentimentUnit \/ found < 0 - SentimentUnit

\* finalScore after the modifiers of the stack
RECURSIVE ApplyModifiers(_, _)
ApplyModifiers(finalScore, modifierStack) ==
  IF modifierStack = <<>> THEN finalScore
  ELSE ApplyModifiers(IF modifierStack[1] = 0 - SentimentUnit THEN finalScore * (0 - 1)
                      ELSE (finalScore * modifierStack[1]) \div SentimentUnit,
                      Tail(modifierStack))

\* The loop from token i on: score at its end.
RECURSIVE ScoreFrom(_, _, _, _)
ScoreFrom(tokens, i, score, modifierStack) ==
  IF i > Len(tokens) THEN score
  ELSE IF tokens[i] \notin DOMAIN sentimentLexicon
    THEN ScoreFrom(tokens, i + 1, score, modifierStack)
  ELSE LET found == sentimentLexicon[tokens[i]]
       IN IF IsModifier(found)
            THEN ScoreFrom(tokens, i + 1, score, Append(modifierStack, found))
          ELSE ScoreFrom(tokens, i + 1,
                         score + ApplyModifiers(found, modifierStack), <<>>)

\* Math.max(-1, Math.min(1, score / tokens.length)), NaN for no token
calculateSentenceSentiment(sentence) ==
  LET tokens == SentimentTokens(sentence)
      score == ScoreFrom(tokens, 1, 0, <<>>)
  IN [score |-> score,
      returned |-> IF tokens = <<>> THEN NaN
                   ELSE Max(0 - SentimentUnit,
                            Min(SentimentUnit,
                                IF score >= 0 THEN score \div Len(tokens)
                                ELSE 0 - ((0 - score) \div Len(tokens))))]

NotScored == [asked |-> FALSE]

\* A call of calculateSentenceSentiment.
CalculateSentenceSentiment ==
  /\ ~sentiment.asked
  /\ \E sentence \in SeqsUpTo(SentenceWords, MaxTokens) :
       sentiment' = [asked |-> TRUE, sentence |-> sentence]
                      @@ calculateSentenceSentiment(sentence)
  /\ UNCHANGED <<graphVars, query, embeddingVars, schemaVars, routeVars, uiVars,
                 clustered, resolved, queried>>

NextSentiment == CalculateSentenceSentiment

(***************************************************************************)
(* The engine's searches (vector-embeddings-engine.ts): findSimilar and    *)
(* computeTextSimilarity as above, semanticSearch and recommendSchemaType. *)
(***************************************************************************)
\* The schema types of recommendSchemaType; of the keywords of each, the
\* words of the model's lexicon.
engineSchemaTypes ==
  << [type |-> "Article", keywords |-> <<>>],
     [type |-> "Product", keywords |-> <<"product", "price">>],
     [type |-> "Recipe", keywords |-> <<>>],
     [type |-> "HowTo", keywords |-> <<>>],
     [type |-> "Review", keywords |-> <<"review">>],
     [type |-> "Event", keywords |-> <<>>],
     [type |-> "FAQ", keywords |-> <<>>],
     [type |-> "Course", keywords |-> <<>>],
     [type |-> "JobPosting", keywords |-> <<>>],
     [type |-> "LocalBusiness", keywords |-> <<>>] >>

\* createEmbedding(schema.keywords, `schema-type-${schema.type}`) of each
\* schema type, worked out once.
SchemaTypeEmbeddings ==
  LET made == [s \in 1..Len(engineSchemaTypes) |->
                 [id |-> <<"schema-type-", engineSchemaTypes[s].type>>,
                  vector |-> generateVector(tokenize(engineSchemaTypes[s].keywords),
                                            engineSchemaTypes[s].keywords),
                  metadata |-> [text |-> engineSchemaTypes[s].keywords, type |-> "text"]]]
  IN AfterEvaluating(made, made)

\* The store after the loop that ensures the schema embeddings, from s on.
RECURSIVE EnsureSchemaEmbeddings(_, _)
EnsureSchemaEmbeddings(map, s) ==
  IF s > Len(engineSchemaTypes) THEN map
  ELSE EnsureSchemaEmbeddings(
         IF \E i \in 1..Len(map) : map[i].id = SchemaTypeEmbeddings[s].id THEN map
         ELSE MapSet(map, SchemaTypeEmbeddings[s].id, SchemaTypeEmbeddings[s]),
         s + 1)

\* semanticSearch(query, filters) on a store, n ids having been generated
\* before: the store it leaves and the results it returns.
semanticSearch(map, text, filters, n) ==
  LET queryEmbedding == NewEmbedding(text, NoId, n)
      stored == MapSet(map, queryEmbedding.id, queryEmbedding)
      minSimilarity == IF filters.minSimilarity = 0 THEN 300 ELSE filters.minSimilarity
      results == findSimilar(stored, [kind |-> "vector", vector |-> queryEmbedding.vector],
                             20, minSimilarity, n + 1).results
  IN [embeddings |-> stored,
      results |-> SelectSeq(results,
                            LAMBDA r : filters.type = "" \/ r.metadata.type = filters.type)]

\* recommendSchemaType(content) on a store: the store it leaves and what it
\* returns.
recommendSchemaType(map, content, n) ==
  LET ensured == EnsureSchemaEmbeddings(map, 1)
      contentEmbedding == NewEmbedding(content, NoId, n)
      stored == MapSet(ensured, contentEmbedding.id, contentEmbedding)
      results == findSimilar(stored, [kind |-> "vector", vector |-> contentEmbedding.vector],
                             Len(engineSchemaTypes), 0, n + 1).results
      schemaResults == SelectSeq(results, LAMBDA r : r.id[1] = "schema-type-")
  IN [embeddings |-> stored,
      results |-> IF schemaResults = <<>>
                    THEN [schemaType |-> "Article", confidence |-> Unit \div 2]
                  ELSE [schemaType |-> schemaResults[1].id[2],
                        confidence |-> schemaResults[1].similarity]]

\* The stores searched: up to MaxSearched embeddings of two texts, each
\* under an id of the caller, under 'temp1', or under a generated id.
MaxSearched == 2
SearchedStores ==
  {map \in SeqsUpTo({NewEmbedding(text, id, 0) :
                       text \in {<<"Product", "review">>, <<"best", "review">>},
                       id \in {<<"a">>, <<"temp1">>, NoId}}, MaxSearched) :
     \A i \in 1..Len(map), j \in 1..Len(map) : i # j => map[i].id # map[j].id}

SearchFilters == {[minSimilarity |-> 0, type |-> ""], [minSimilarity |-> 500, type |-> "text"]}

NotSearched == [asked |-> FALSE]

Asked(name, before, returned) ==
  [asked |-> TRUE, name |-> name, before |-> before, after |-> returned.embeddings,
   returned |-> returned]

\* A call of one of the four searches on a store that has generated an id.
Search ==
  /\ ~queried.asked
  /\ \E map \in SearchedStores :
       \/ \E q \in Queries, limit \in Limits :
            queried' = Asked("findSimilar", map,
                             findSimilar(map, q, limit.k, limit.threshold, 1))
       \/ \E text \in Texts, filters \in SearchFilters :
            queried' = Asked("semanticSearch", map, semanticSearch(map, text, filters, 1))
       \/ \E pair \in TextPairs :
            queried' = Asked("computeTextSimilarity", map,
                             computeTextSimilarity(map, pair[1], pair[2]))
       \/ \E content \in Texts :
            queried' = Asked("recommendSchemaType", map,
                             recommendSchemaType(map, content, 1))
  /\ UNCHANGED <<graphVars, query, embeddingVars, schemaVars, routeVars, uiVars,
                 clustered, resolved, sentiment>>

NextSearch == Search

\* The states before any call.
NotExtracted == [asked |-> FALSE]

AppInit ==
  /\ extracted = NotExtracted
  /\ fetched = NotFetched
  /\ single = NotSingle
  /\ bulk = NotBulk
  /\ clustered = NotClustered
  /\ resolved = NotResolved
  /\ sentiment = NotScored
  /\ queried = NotSearched

(***************************************************************************)
(* Specifications                                                          *)
(***************************************************************************)
Init == GraphInit /\ EmbeddingsInit /\ RecommendInit /\ SchemaInit /\ AppInit

\* Calls of buildGraph that may overlap.
Spec == Init /\ [][Next]_vars

\* One call of buildGraph, and getShortestPath at any moment.
SpecQuery == Init /\ [][NextQuery]_vars

\* The embeddings engine.
SpecEmbeddings == Init /\ [][NextEmbeddings]_vars

\* The schema recommender.
SpecRecommend == Init /\ [][NextRecommend]_vars

\* The type tables.
SpecTypes == Init /\ [][NextTypes]_vars

\* The about and the mentions of the page's document.
SpecPage == Init /\ [][NextPage]_vars

\* The HowTo part of the generator's document.
SpecBuild == Init /\ [][NextBuild]_vars

\* The pruning of the page's document.
SpecClean == Init /\ [][NextClean]_vars

\* extractDataFromHTML.
SpecExtract == Init /\ [][NextExtract]_vars

\* The page in single mode.
SpecSingle == Init /\ [][NextSingle]_vars

\* The page in bulk mode; a scrape gets its response and a delay its end.
SpecBulk ==
  Init /\ [][NextBulk]_vars /\ WF_vars(BulkUrlScraped) /\ WF_vars(BulkDelayed)

\* scrapeWithRetry; a fetch settles and a delay ends.
SpecScrape ==
  Init /\ [][NextScrape]_vars /\ WF_vars(FetchSettled) /\ WF_vars(RetryDelayed)

\* clusterEmbeddings.
SpecCluster == Init /\ [][NextCluster]_vars

\* postProcessEntities.
SpecResolve == Init /\ [][NextResolve]_vars

\* calculateSentenceSentiment.
SpecSentiment == Init /\ [][NextSentiment]_vars

\* The searches of the embeddings engine.
SpecSearch == Init /\ [][NextSearch]_vars

(***************************************************************************)
(* Claims about the embeddings engine                                      *)
(***************************************************************************)
Normalized(vector) ==
  /\ \A i \in 1..Len(vector) : ~IsNaN(vector[i])
  /\ \/ \A i \in 1..Len(vector) : vector[i] = 0
     \/ /\ SumOfSquares(vector) >= Unit * Unit - (Unit * Unit) \div 50
        /\ SumOfSquares(vector) <= Unit * Unit + (Unit * Unit) \div 50

\* C9 (as claimed): the vector of every stored embedding is all zeros or has
\* norm 1.0 within tolerance, and none of its components is NaN, the result
\* of dividing zero by zero.
C9_EmbeddingsNormalized ==
  \A i \in 1..Len(embeddings) : Normalized(embeddings[i].vector)

\* The same for the embeddings of texts with a token left after the
\* stopwords are dropped.
EmbeddingsWithTokensNormalized ==
  \A i \in 1..Len(embeddings) :
    tokenize(embeddings[i].metadata.text) # <<>> => Normalized(embeddings[i].vector)

\* C10: once the second engine has imported what the first exported, a search
\* of it gives, for every query vector, k and threshold, the ids,
\* similarities and order that the search of the exported store gave.
C10_RoundTripKeepsSearches ==
  restored.imported =>
    \A q \in QueryVectors, k \in Ks, threshold \in Thresholds :
      SearchStore(restored.embeddings, q, k, threshold)
        = SearchStore(exported.from, q, k, threshold)

\* A store was exported and imported in which two embeddings are as near to
\* a query as each other, so that their order is the store's and k = 1 cuts
\* off the second; and for another query one is nearer than the other.
C10_Witness ==
  /\ restored.imported
  /\ Len(exported.from) >= 2
  /\ \E q \in QueryVectors, threshold \in Thresholds :
       LET all == SearchStore(restored.embeddings, q, 5, threshold)
       IN /\ Len(all) >= 2
          /\ all[1].similarity = all[2].similarity
          /\ SearchStore(restored.embeddings, q, 1, threshold) = <<all[1]>>
  /\ \E q \in QueryVectors, threshold \in Thresholds :
       LET all == SearchStore(restored.embeddings, q, 5, threshold)
       IN /\ Len(all) >= 2
          /\ all[1].similarity > all[2].similarity
          /\ all[1].id = restored.embeddings[2].id

\* The tokens two texts share once the stopwords are dropped.
SharedTokens(text1, text2) ==
  {tokenize(text1)[i] : i \in 1..Len(tokenize(text1))}
    \cap {tokenize(text2)[i] : i \in 1..Len(tokenize(text2))}

\* C11 (as claimed): computeTextSimilarity returns 0, and not NaN, for two
\* texts that share no token other than stopwords, empty texts and texts of
\* stopwords included.
C11_DisjointTextsScoreZero ==
  (compared.asked /\ SharedTokens(compared.text1, compared.text2) = {})
    => compared.result = 0

(***************************************************************************)
(* Claims about the schema recommender                                     *)
(***************************************************************************)
\* The fallback for a URL.
Fallback(url) ==
  [schemaType |-> IF UrlIncludes(url, "blog") THEN "BlogPosting" ELSE "Article",
   confidence |-> 5]

\* C12: recommendSchema returns one to three recommendations, each with a
\* confidence from 0 to 1, in non-increasing order of confidence; and when no
\* type scores 0.5 or more, the first is the fallback, BlogPosting for a URL
\* with /blog and Article otherwise, with confidence 0.5.
C12_RecommendationsRanked ==
  recommended.asked =>
    LET result == recommended.result
    IN /\ Len(result) >= 1
       /\ Len(result) <= 3
       /\ \A i \in 1..Len(result) :
            result[i].confidence >= 0 /\ result[i].confidence <= 10
       /\ \A i \in 1..(Len(result) - 1) :
            result[i].confidence >= result[i + 1].confidence
       /\ (\A k \in 1..Len(recommended.scores) : recommended.scores[k].score < 5)
            => result[1] = Fallback(recommended.url)

\* A call for a /blog URL in which the best type scored 0.4: BlogPosting
\* comes first and that type after it.
C12_Witness ==
  /\ recommended.asked
  /\ UrlIncludes(recommended.url, "blog")
  /\ \A k \in 1..Len(recommended.scores) : recommended.scores[k].score < 5
  /\ Len(recommended.result) >= 2
  /\ recommended.result[1].schemaType = "BlogPosting"
  /\ recommended.result[2].confidence = 4

\* A call in which more than three types scored above 0.3, one of them
\* above 1.0 before the cap.
RecommendationsCutToThree ==
  /\ recommended.asked
  /\ Cardinality({k \in 1..Len(recommended.scores) :
                    recommended.scores[k].score > 3}) > 3
  /\ \E k \in 1..Len(recommended.scores) : recommended.scores[k].score > 10

\* C13 (as claimed): the pattern pass gives no type more than 0.3.
C13_PatternPassCapped ==
  recommended.asked =>
    \A k \in 1..Len(recommended.patternScores) :
      recommended.patternScores[k].score <= 3

(***************************************************************************)
(* Claims about the schema documents                                       *)
(***************************************************************************)
\* C14 (as claimed): in every document or graph export, an entity or node of
\* type fitness has the "@type" Thing, whichever type table wrote it.
C14_FitnessIsThing ==
  emitted.asked =>
    \A i \in 1..Len(emitted.entries) :
      emitted.entries[i].type = "fitness" => emitted.entries[i].schemaType = "Thing"

\* The links the fixed tables of generateSchemaForUrl hold for a name.
TableLinks(name) ==
  {aboutTable(LowerPhrase(name)), mentionTable(LowerPhrase(name))} \ {<<>>}

\* The entries of the about and the mentions of the generated document.
PageEntries ==
  {page.schema.about[i] : i \in 1..Len(page.schema.about)}
    \cup {page.schema.mentions[i] : i \in 1..Len(page.schema.mentions)}

\* C15 (as claimed): the sameAs of every about or mentions entry is what a
\* fixed table holds for the entry's name; an entry whose name no table has
\* carries no sameAs.
C15_LinksFromFixedTable ==
  page.asked =>
    \A entry \in PageEntries :
      entry.sameAs # <<>> => entry.sameAs \in TableLinks(entry.name)

\* C16 (as claimed): every extracted entity with confidence above 0.7 is in
\* the about or, while fewer than 10 mentions are emitted, in the mentions.
C16_EntityInAboutOrMentions ==
  (page.asked /\ ~page.thrown) =>
    \A i \in 1..Len(page.entities) :
      (page.entities[i].confidence > 700 /\ Len(page.schema.mentions) < 10)
        => \E entry \in PageEntries : entry.name = page.entities[i].name

\* The content is n steps "Step i: <sentence>", i from 1 to n, of different
\* sentences.
IsNumberedSteps(content) ==
  /\ \A i \in 1..Len(content) : content[i].lead = StepLead(i)
  /\ \A i, j \in 1..Len(content) :
       i # j => LowerText(content[i].text) # LowerText(content[j].text)

\* C17 (as claimed): for a how-to title and a content of n numbered steps,
\* 3 <= n <= 15, of sentences of any length, the document has HowTo in its
\* "@type" and a step of n entries, the i-th with position i and the text of
\* the i-th sentence.
C17_NumberedStepsKept ==
  (/\ built.asked
   /\ TitleSignalsHowTo(built.title)
   /\ IsNumberedSteps(built.content)
   /\ Len(built.content) >= 3
   /\ Len(built.content) <= 15)
    => /\ \E k \in 1..Len(built.schema.type) : built.schema.type[k] = "HowTo"
       /\ Len(built.schema.step) = Len(built.content)
       /\ \A i \in 1..Len(built.schema.step) :
            /\ built.schema.step[i].position = i
            /\ built.schema.step[i].text = built.content[i].text
            /\ built.schema.step[i].text # <<>>

\* C18: the document has a step, and HowTo in its "@type", only for a how-to
\* title and a content in which two of the indicators occur; a step has at
\* most 15 entries, no two of the same text up to case, in ascending order
\* of position.
C18_StepsOnlyForHowTo ==
  built.asked =>
    LET step == built.schema.step
        isHowTo == \E k \in 1..Len(built.schema.type) : built.schema.type[k] = "HowTo"
    IN /\ (step # <<>> \/ isHowTo)
            => /\ TitleSignalsHowTo(built.title)
               /\ Cardinality({p \in 1..Len(StepIndicators) :
                                 IndicatorTest(StepIndicators[p], built.content)}) >= 2
       /\ isHowTo <=> step # <<>>
       /\ Len(step) <= 15
       /\ \A i, j \in 1..Len(step) :
            i # j => LowerText(step[i].text) # LowerText(step[j].text)
       /\ \A i \in 1..(Len(step) - 1) : step[i].position <= step[i + 1].position

\* Seventeen steps were found, the last of them first in the content: the
\* document has the fifteen of the lowest positions, in order.
C18_Witness ==
  /\ built.asked
  /\ Len(built.content) = 17
  /\ Len(built.schema.step) = 15
  /\ built.schema.step[1].position = 1
  /\ built.schema.step[15].position = 15
  /\ built.content[1].lead.number = 17

\* A sentence given twice in different case is one entry, and the entries
\* are in another order than the content's.
StepsDeduplicated ==
  /\ built.asked
  /\ Len(built.schema.step) = 3
  /\ \E i, j \in 1..Len(built.content) :
       /\ i < j
       /\ built.content[i].lead.kind \in {"step", "list"}
       /\ built.content[j].lead.kind \in {"step", "list"}
       /\ built.content[i].text # built.content[j].text
       /\ LowerText(built.content[i].text) = LowerText(built.content[j].text)
  /\ built.schema.step[1].text # built.content[1].text

\* The steps came from the sequence words, no numbered step being kept.
StepsFromSequenceWords ==
  /\ built.asked
  /\ Len(built.schema.step) = 3
  /\ \A i \in 1..Len(built.content) : built.content[i].lead.kind = "word"

\* A value has, at no depth, a null, a blank string, an empty array or an
\* object without keys.
RECURSIVE NothingEmpty(_)
NothingEmpty(value) ==
  CASE value.kind \in {"null", "undefined"} -> FALSE
    [] value.kind = "string" -> ~IsBlank(value.chars)
    [] value.kind = "array" ->
         /\ value.items # <<>>
         /\ \A i \in 1..Len(value.items) : NothingEmpty(value.items[i])
    [] value.kind = "object" ->
         /\ value.props # <<>>
         /\ \A i \in 1..Len(value.props) : NothingEmpty(value.props[i].value)
    [] OTHER -> TRUE

\* C19 (as claimed): the document that schema generation returns has, at
\* every depth and inside arrays too, no null, no blank string, no empty
\* array and no object without keys.
C19_NothingEmptyReturned ==
  (pruned.asked /\ ~pruned.first.thrown) => NothingEmpty(pruned.first.schema)

\* C20: pruning a document that was pruned returns that document.
C20_PruningIdempotent ==
  pruned.again =>
    /\ ~pruned.second.thrown
    /\ pruned.second.schema = pruned.first.schema

\* A document whose about is an array of an array of an object was pruned
\* twice; the first pruning took a property away from the object.
C20_Witness ==
  /\ pruned.again
  /\ LET IsNest(value, size) ==
           /\ value.kind = "array"
           /\ Len(value.items) = 1
           /\ value.items[1].kind = "array"
           /\ Len(value.items[1].items) = 1
           /\ value.items[1].items[1].kind = "object"
           /\ Len(value.items[1].items[1].props) = size
     IN /\ IsNest(pruned.generatedSchema.props[Len(pruned.generatedSchema.props)].value, 2)
        /\ IsNest(pruned.first.schema.props[Len(pruned.first.schema.props)].value, 1)

(***************************************************************************)
(* Claims about the scrape route, the page's handlers and the numeric      *)
(* routines                                                                *)
(***************************************************************************)
\* C21 (as claimed): extractDataFromHTML returns a document and does not
\* raise, whatever the markup: blocks of structured data that are not JSON
\* or are no object, and content with any punctuation.
C21_ExtractionNeverRaises ==
  extracted.asked => ~extracted.thrown

\* C22 (as claimed): when the text extracted for a URL is shorter than 500
\* characters, the result carries an indicator of insufficient content and
\* no schema is synthesized from it.
C22_ShortContentIndicated ==
  (single.last.ok /\ single.last.contentLength < 500) =>
    (single.last.warning /\ ~single.synthesized)

\* C28 (as claimed): a schema on display was generated for the URL that is
\* in the single-URL field, also when the user edits the field while
\* processSingleUrl waits for the scrape.
C28_SchemaOfCurrentUrl ==
  single.currentSchema # NoSchema => single.currentSchema.url = single.singleUrl

StatusOf(b, idx) == b.processedUrls[idx].status
IsOver(status) == status \in {"completed", "error"}

\* A status stays, or moves from pending to processing or from processing
\* to completed or error.
Advances(before, after) ==
  \/ after = before
  \/ before = "pending" /\ after = "processing"
  \/ before = "processing" /\ IsOver(after)

\* C27: in a bulk run, a URL's status only moves from pending to processing
\* to completed or error; the URLs are handled in order, at most one being
\* processed; a failed URL does not stop the later ones; once loading is
\* false every entry is completed or error; and a run comes to its end.
C27_BulkRunInOrder ==
  /\ [][bulk.loading =>
          /\ Len(bulk'.processedUrls) = Len(bulk.processedUrls)
          /\ \A idx \in 1..Len(bulk.processedUrls) :
               Advances(StatusOf(bulk, idx), StatusOf(bulk', idx))]_vars
  /\ [](/\ Cardinality({idx \in 1..Len(bulk.processedUrls) :
                          StatusOf(bulk, idx) = "processing"}) <= 1
        /\ \A idx \in 1..Len(bulk.processedUrls) :
             StatusOf(bulk, idx) # "pending" =>
               \A earlier \in 1..(idx - 1) : IsOver(StatusOf(bulk, earlier))
        /\ ~bulk.loading =>
             \A idx \in 1..Len(bulk.processedUrls) : IsOver(StatusOf(bulk, idx)))
  /\ (bulk.loading ~> ~bulk.loading)

\* A run of two URLs is over, the first one failed and the second completed.
C27_Witness ==
  /\ ~bulk.loading
  /\ Len(bulk.processedUrls) = 2
  /\ StatusOf(bulk, 1) = "error"
  /\ StatusOf(bulk, 2) = "completed"

Failure(fetch) == fetch.settled /\ Raises(fetch)

\* C30: a call of scrapeWithRetry makes at most 3 fetches, the first two
\* with JavaScript rendering and the third without, each retry after a
\* delay; it returns the first response that is OK and has at least 1000
\* characters and fetches no more, or fails with the third fetch's error;
\* and it comes to its end.
C30_ThreeAttempts ==
  /\ [](/\ Len(fetched.attempts) <= 3
        /\ \A k \in 1..Len(fetched.attempts) :
             /\ fetched.attempts[k].renderJs = (k <= 2)
             /\ fetched.attempts[k].delayed = (k > 1)
             /\ k < Len(fetched.attempts) => Failure(fetched.attempts[k])
        /\ fetched.pc = "returned" =>
             LET last == fetched.attempts[Len(fetched.attempts)]
             IN last.ok /\ last.length >= 1000 /\ fetched.html = last.length
        /\ fetched.pc = "thrown" =>
             /\ Len(fetched.attempts) = 3
             /\ Failure(fetched.attempts[3])
             /\ fetched.error = 3)
  /\ (fetched.pc = "fetch" ~> fetched.pc \in {"returned", "thrown"})

\* The third fetch, made without rendering after two failures, is returned.
C30_Witness ==
  /\ fetched.pc = "returned"
  /\ Len(fetched.attempts) = 3
  /\ ~fetched.attempts[3].renderJs

\* C23 (as claimed): the reassignment of k-means runs its 50 rounds, with no
\* exit on convergence before, as the 50 rounds of the node importance and
\* the 20 rounds of the topic factorization do.
C23_FixedRounds ==
  (clustered.asked /\ ~clustered.thrown) => clustered.rounds = 50

\* C24 (as claimed): clusterEmbeddings(k) does not raise, whatever the store
\* and k >= 0; each stored id is in exactly one cluster, and there are
\* min(k, number of stored embeddings) clusters.
C24_ClustersPartitionStore ==
  clustered.asked =>
    /\ ~clustered.thrown
    /\ Len(clustered.clusters) = Min(clustered.k, Len(clustered.embeddings))
    /\ \A e \in 1..Len(clustered.embeddings) :
         Cardinality({<<c, m>> \in (1..Len(clustered.clusters)) \X (1..MaxStored) :
                        /\ m <= Len(clustered.clusters[c])
                        /\ clustered.clusters[c][m] = clustered.embeddings[e].id}) = 1

Overlap(a, b) == a.startIndex < b.endIndex /\ b.startIndex < a.endIndex

\* C25: the entities postProcessEntities returns are in the order of their
\* start, no two of them overlap, and a candidate that overlaps the entity
\* kept last leaves, of the two, the one of higher confidence in its place.
C25_MergedInOrderWithoutOverlap ==
  resolved.asked =>
    /\ \A i \in 1..Len(resolved.merged), j \in 1..Len(resolved.merged) :
         i < j =>
           /\ resolved.merged[i].startIndex <= resolved.merged[j].startIndex
           /\ ~Overlap(resolved.merged[i], resolved.merged[j])
    /\ \A n \in 1..Len(resolved.sorted) :
         LET before == MergedAfter(resolved.sorted, n - 1)
             after == MergedAfter(resolved.sorted, n)
             entity == resolved.sorted[n]
         IN (before # <<>> /\ Overlap(entity, before[Len(before)])) =>
              LET lastEntity == before[Len(before)]
              IN /\ Len(after) = Len(before)
                 /\ after[Len(after)] \in {entity, lastEntity}
                 /\ after[Len(after)].confidence >= entity.confidence
                 /\ after[Len(after)].confidence >= lastEntity.confidence

\* A candidate of higher confidence took the place of the entity it
\* overlaps, and a later candidate that overlaps it was dropped.
C25_Witness ==
  /\ resolved.asked
  /\ Len(resolved.sorted) = 3
  /\ Len(resolved.merged) = 1
  /\ resolved.merged[1] = resolved.sorted[2]
  /\ resolved.sorted[1].confidence < resolved.sorted[2].confidence
  /\ Overlap(resolved.sorted[3], resolved.sorted[2])

\* The words the lexicon lists as negations and as intensifiers.
Negations == {"not"}
Intensifiers == {"very", "extremely", "somewhat"}

\* The score of a sentence when a negation adds nothing and changes the
\* sign of the next word of sentiment, an intensifier multiplies it, and the
\* modifiers are dropped after that word.
RECURSIVE ScoreAsClaimed(_, _, _)
ScoreAsClaimed(tokens, i, pending) ==
  IF i > Len(tokens) THEN 0
  ELSE IF tokens[i] \in Negations
    THEN ScoreAsClaimed(tokens, i + 1, pending * (0 - 1))
  ELSE IF tokens[i] \in Intensifiers
    THEN ScoreAsClaimed(tokens, i + 1, (pending * sentimentLexicon[tokens[i]]) \div SentimentUnit)
  ELSE IF tokens[i] \in DOMAIN sentimentLexicon
    THEN (sentimentLexicon[tokens[i]] * pending) \div SentimentUnit
           + ScoreAsClaimed(tokens, i + 1, SentimentUnit)
  ELSE ScoreAsClaimed(tokens, i + 1, pending)

\* C26 (as claimed): in the score of a sentence a negation adds nothing of
\* its own and changes the sign of the next word of sentiment, an
\* intensifier multiplies that word by its factor, and the pending
\* modifiers are dropped after it.
C26_ModifiersActOnNextWord ==
  sentiment.asked =>
    sentiment.score = ScoreAsClaimed(SentimentTokens(sentiment.sentence), 1, SentimentUnit)

IdsAndVectors(map) == [i \in 1..Len(map) |-> <<map[i].id, map[i].vector>>]

\* C29 (as claimed): findSimilar, semanticSearch, computeTextSimilarity and
\* recommendSchemaType leave the ids and the vectors of the store as they
\* were, for a query that is a vector and for one that is a text.
C29_SearchesLeaveStore ==
  queried.asked => IdsAndVectors(queried.after) = IdsAndVectors(queried.before)

====
